---- MODULE Spec2Model ----
(***************************************************************************)
(* A model of the eparser EPUB library: the Manifest and Metadata          *)
(* aggregates and their validating constructors, the container parser,     *)
(* the package parser with its prefix scope stack, and book assembly.      *)
(*                                                                         *)
(* Conventions.  Rust's Option<T> is a sequence of length at most one      *)
(* (None == <<>>, Some(x) == <<x>>).  Result<T, E> is a record             *)
(* [ok, val, err]; an error is a pair <<variant, argument>>.  A Url is a   *)
(* record [root, path] with the path a sequence of segments, so that       *)
(* Url::join is computed rather than assumed.  Vec indices are 0-based as  *)
(* in the source; sequence positions are index + 1.                        *)
(***************************************************************************)
EXTENDS Naturals, Sequences, FiniteSets, TLC

VARIABLES
    mf_id,          \* Manifest::new argument `id`
    mf_resources,   \* Manifest::new argument `resources`
    mf_result,      \* Option<Result<Manifest, ManifestCheckError>>: the call's outcome
    mf_lookup,      \* the last lookup made on the constructed Manifest
    md_elems,       \* Metadata::new argument `elems`
    md_metas,       \* Metadata::new argument `metas`
    md_result,      \* Option<Result<Metadata, MetadataCheckError>>: the call's outcome
    md_access,      \* the last accessor called on the constructed Metadata
    ct_doc,         \* the container.xml text handed to parse_container, as its XML tree
    ct_result,      \* Option<Result<Container, ContainerError>>: the call's outcome
    pk_doc,         \* the package document handed to the last PackageParser::parse call
    pk_result,      \* Option<Result<Package, PackageError>>: the last call's outcome
    pk_stack,       \* PackageParser.parse_state.prefixes_stack
    pk_calls,       \* number of parse calls made on the parser
    st_store,       \* the resource store (LocalFiles, LazyLocalFiles, RemoteFiles or RemoteEpub)
    st_log,         \* the get calls made on the store, in order, with their effects
    bk_content,     \* the files of the publication the store is backed by
    bk_pc,          \* parse_book's position
    bk_container,   \* the parsed Container
    bk_options,     \* the PackageParseOptions of the parser
    bk_next,        \* position in container.rootfiles of the next root file
    bk_packages,    \* the packages parsed so far
    bk_result,      \* Option<Result<EpubBook, ParseBookError>>: what parse_book returned
    px_stack,       \* a PrefixesStack: the scopes pushed and not yet popped, oldest first
    px_log,         \* the operations made on the stack, in order, with their outcomes
    ps_frame        \* the frame of a call in progress (parse, or the future of a get): position and locals

mfVars == <<mf_id, mf_resources, mf_result, mf_lookup>>

mdVars == <<md_elems, md_metas, md_result, md_access>>

ctVars == <<ct_doc, ct_result>>

pkVars == <<pk_doc, pk_result, pk_stack, pk_calls>>

stVars == <<st_store, st_log>>

bkVars == <<bk_content, bk_pc, bk_container, bk_options, bk_next, bk_packages, bk_result>>

pxVars == <<px_stack, px_log>>

psVars == <<ps_frame>>

vars == <<mfVars, mdVars, ctVars, pkVars, stVars, bkVars, pxVars, psVars>>

----------------------------------------------------------------------------
(* Option and Result                                                       *)

None == <<>>

Some(x) == <<x>>

IsSome(o) == Len(o) = 1

Unwrap(o) == o[1]

NoVal == <<>>

NoErr == <<"", "">>

Ok(v) == [ok |-> TRUE, val |-> v, err |-> NoErr]

Err(variant, arg) == [ok |-> FALSE, val |-> NoVal, err |-> <<variant, arg>>]

\* Structural equality of two results, comparing payloads of one kind only.
ResEq(a, b) ==
    /\ a.ok = b.ok
    /\ IF a.ok THEN a.val = b.val
       ELSE a.err[1] = b.err[1] /\ a.err[2] = b.err[2]

IsErr(r, variant) == ~r.ok /\ r.err[1] = variant

IsErrWith(r, variant, arg) == ~r.ok /\ r.err[1] = variant /\ r.err[2] = arg

\* A let binding whose value is computed once: F applied to the value of v.
Bind(v, F(_)) == CHOOSE r \in {F(x) : x \in {v}} : TRUE

SeqsUpTo(S, n) == UNION {[1..k -> S] : k \in 0..n}

----------------------------------------------------------------------------
(* Urls                                                                    *)

EPUB_ROOT == "epub:/"

\* A Url without a fragment
Url(root, path) == [root |-> root, path |-> path, fragment |-> None]

\* The same Url with the fragment `#fragment`
WithFragment(url, fragment) == [url EXCEPT !.fragment = Some(fragment)]

\* format!("epub:/{}", p) followed by Url::parse
EpubUrl(path) == Url(EPUB_ROOT, path)

\* Url::join: the relative reference replaces the last segment of the base.
UrlJoin(base, rel) ==
    IF Len(base.path) = 0 THEN Url(base.root, rel)
    ELSE Url(base.root, SubSeq(base.path, 1, Len(base.path) - 1) \o rel)

\* url.join(""): the Url itself without its fragment
JoinEmpty(url) == [url EXCEPT !.fragment = None]

\* Url::path_segments: None for a Url that cannot be a base (mailto:, data:)
path_segments(url) == IF url.root = "mailto:" THEN None ELSE Some(url.path)

----------------------------------------------------------------------------
(* Reserved prefixes (package/prefix.rs)                                   *)

DC == [name |-> Some("dc"), uri |-> "http://purl.org/dc/elements/1.1/"]

DCTERMS == [name |-> Some("dcterms"), uri |-> "http://purl.org/dc/terms/"]

OPF == [name |-> None, uri |-> "http://www.idpf.org/2007/opf"]

\* WithNamespace::from_prefix / Property::from_prefix: the (namespace, local) pair
from_prefix(prefix, reference) == [ns |-> prefix.uri, reference |-> reference]

----------------------------------------------------------------------------
(* Manifest (package/manifest.rs)                                          *)

NAV == from_prefix(OPF, "nav")

COVER_IMAGE == from_prefix(OPF, "cover-image")

Resource(id, href, fallback, properties) ==
    [id |-> id, href |-> href, fallback |-> fallback, properties |-> properties]

\* Vec::contains on the property list
Contains(properties, p) == \E i \in 1..Len(properties) : properties[i] = p

\* resource.properties.as_ref().map(|p| p.contains(&NAV)).unwrap_or(false)
HasNav(resource) ==
    IF IsSome(resource.properties) THEN Contains(Unwrap(resource.properties), NAV)
    ELSE FALSE

EmptyMap == << >>

MapGet(map, key) == IF key \in DOMAIN map THEN Some(map[key]) ELSE None

\* HashMap::insert (the previous value, if any, is what the caller tests)
MapInsert(map, key, value) == [k \in DOMAIN map \cup {key} |-> IF k = key THEN value ELSE map[k]]

RECURSIVE IndexLoop_NoHrefCheck(_, _, _, _)
IndexLoop_NoHrefCheck(resources, index, id_to_resource, href_to_resource) ==
    IF index >= Len(resources)
    THEN Ok([id_to_resource |-> id_to_resource, href_to_resource |-> href_to_resource])
    ELSE LET resource == resources[index + 1]
         IN  IF IsSome(MapGet(id_to_resource, resource.id))
             THEN Err("DeduplicatedId", resource.id)
             ELSE IndexLoop_NoHrefCheck(resources, index + 1,
                            MapInsert(id_to_resource, resource.id, index),
                            MapInsert(href_to_resource, resource.href, index))

\* The indexing loop of Manifest::new, from 0-based index `index` on.
RECURSIVE IndexLoop(_, _, _, _)
IndexLoop(resources, index, id_to_resource, href_to_resource) ==
    IF index >= Len(resources)
    THEN Ok([id_to_resource |-> id_to_resource, href_to_resource |-> href_to_resource])
    ELSE LET resource == resources[index + 1]
         IN  IF IsSome(MapGet(id_to_resource, resource.id))
             THEN Err("DeduplicatedId", resource.id)
             ELSE IF IsSome(MapGet(href_to_resource, resource.href))
             THEN Err("DeduplicatedHref", resource.href)
             ELSE IndexLoop(resources, index + 1,
                            MapInsert(id_to_resource, resource.id, index),
                            MapInsert(href_to_resource, resource.href, index))

\* The fallback loop of Manifest::new, from 0-based index `index` on.
RECURSIVE FallbackLoop(_, _, _)
FallbackLoop(resources, index, id_to_resource) ==
    IF index >= Len(resources) THEN Ok(NoVal)
    ELSE LET resource == resources[index + 1]
         IN  IF IsSome(resource.fallback)
                /\ ~IsSome(MapGet(id_to_resource, Unwrap(resource.fallback)))
             THEN Err("IdNotFound", Unwrap(resource.fallback))
             ELSE FallbackLoop(resources, index + 1, id_to_resource)

\* resources.iter().position(..): the 0-based index of the first nav resource
NavPosition(resources) ==
    LET hits == {i \in 1..Len(resources) : HasNav(resources[i])}
    IN  IF hits = {} THEN None
        ELSE Some((CHOOSE i \in hits : \A j \in hits : i <= j) - 1)

Manifest_new(id, resources) ==
    LET indexed == IndexLoop(resources, 0, EmptyMap, EmptyMap)
    IN  IF ~indexed.ok THEN indexed
        ELSE LET fallbacks == FallbackLoop(resources, 0, indexed.val.id_to_resource)
                 nav == NavPosition(resources)
             IN  IF ~fallbacks.ok THEN fallbacks
                 ELSE IF ~IsSome(nav) THEN Err("NavResourceNotFound", "")
                 ELSE Ok([id |-> id,
                          resources |-> resources,
                          id_to_resource |-> indexed.val.id_to_resource,
                          href_to_resource |-> indexed.val.href_to_resource,
                          nav_resource |-> Unwrap(nav)])

get_resource_by_id_Off(manifest, id) ==
    IF id \in DOMAIN manifest.id_to_resource
       /\ manifest.id_to_resource[id] + 2 <= Len(manifest.resources)
    THEN Some(manifest.resources[manifest.id_to_resource[id] + 2])
    ELSE None

get_resource_by_id(manifest, id) ==
    LET index == MapGet(manifest.id_to_resource, id)
    IN  IF IsSome(index) THEN Some(manifest.resources[Unwrap(index) + 1]) ELSE None

get_resource_by_href(manifest, href) ==
    LET index == MapGet(manifest.href_to_resource, href)
    IN  IF IsSome(index) THEN Some(manifest.resources[Unwrap(index) + 1]) ELSE None

\* Vec::get(self.nav_resource)
nav_resource(manifest) ==
    IF manifest.nav_resource < Len(manifest.resources)
    THEN Some(manifest.resources[manifest.nav_resource + 1])
    ELSE None

----------------------------------------------------------------------------
(* Metadata (package/metadata.rs)                                          *)

DCTERMS_MODIFIED == from_prefix(DCTERMS, "modified")

DC_TITLE == from_prefix(DC, "title")

DC_LANGUAGE == from_prefix(DC, "language")

DC_IDENTIFIER == from_prefix(DC, "identifier")

MetadataElement(tag_name) == [tag_name |-> tag_name]

Meta(property, value) == [property |-> property, value |-> value]

\* DateTime::parse_from_rfc3339(..).to_utc(): the instant in UTC, or a
\* ParseError for a value that is no RFC3339 timestamp with an offset.
parse_from_rfc3339(value) ==
    CASE value = "2024-01-01T00:00:00Z" -> Ok("2024-01-01T00:00:00 UTC")
      [] value = "2024-01-01T08:00:00+08:00" -> Ok("2024-01-01T00:00:00 UTC")
      [] value = "2024-06-30T12:00:00Z" -> Ok("2024-06-30T12:00:00 UTC")
      [] OTHER -> Err("DateParseError", value)

\* The grouping loop: elems_map.entry(wn).or_insert_with(Vec::new).push(elem)
RECURSIVE GroupLoop(_, _, _)
GroupLoop(elems, i, elems_map) ==
    IF i > Len(elems) THEN elems_map
    ELSE LET wn == elems[i].tag_name
             group == IF wn \in DOMAIN elems_map THEN elems_map[wn] ELSE <<>>
         IN  GroupLoop(elems, i + 1, MapInsert(elems_map, wn, Append(group, elems[i])))

check_AlwaysOk(elems_map, tag_name) == Ok(NoVal)

\* fn check inside Metadata::new
check(elems_map, tag_name) ==
    LET elems == MapGet(elems_map, tag_name)
    IN  IF ~IsSome(elems) \/ Len(Unwrap(elems)) = 0
        THEN Err("MissingElementError", tag_name.reference)
        ELSE Ok(NoVal)

FindModified_Last(metas) ==
    LET hits == {i \in 1..Len(metas) : metas[i].property = DCTERMS_MODIFIED}
    IN  IF hits = {} THEN None
        ELSE Some(metas[CHOOSE i \in hits : \A j \in hits : j <= i])

\* metas.iter().find(|&meta| meta.property.eq(&DCTERMS_MODIFIED))
FindModified(metas) ==
    LET hits == {i \in 1..Len(metas) : metas[i].property = DCTERMS_MODIFIED}
    IN  IF hits = {} THEN None
        ELSE Some(metas[CHOOSE i \in hits : \A j \in hits : i <= j])

Metadata_new(elems, metas, links) ==
    LET elems_map == GroupLoop(elems, 1, EmptyMap)
        title == check(elems_map, DC_TITLE)
        language == check(elems_map, DC_LANGUAGE)
        identifier == check(elems_map, DC_IDENTIFIER)
        found == FindModified(metas)
    IN  IF ~title.ok THEN title
        ELSE IF ~language.ok THEN language
        ELSE IF ~identifier.ok THEN identifier
        ELSE IF ~IsSome(found) THEN Err("MissingLastModifiedError", "dcterms:modified")
        ELSE LET last_modified == parse_from_rfc3339(Unwrap(found).value)
             IN  IF ~last_modified.ok THEN last_modified
                 ELSE Ok([elems |-> elems_map, metas |-> metas, links |-> links,
                          last_modified |-> last_modified.val])

\* self.elems.get(&DC_TITLE).unwrap(): None stands for the panic of unwrap
titles(metadata) == MapGet(metadata.elems, DC_TITLE)

languages(metadata) == MapGet(metadata.elems, DC_LANGUAGE)

identifiers(metadata) == MapGet(metadata.elems, DC_IDENTIFIER)

----------------------------------------------------------------------------
(* Container parser (oebps.rs)                                             *)

OEBPS == "application/oebps-package+xml"

Rootfile(full_path, media_type) == [full_path |-> full_path, media_type |-> media_type]

\* The first element of `elems` named `name` (Iterator::find on children())
FindChild(elems, name) ==
    LET hits == {i \in 1..Len(elems) : elems[i].name = name}
    IN  IF hits = {} THEN None
        ELSE Some(elems[CHOOSE i \in hits : \A j \in hits : i <= j])

IsRootfile(n) == n.name = "rootfile"

parse_rootfile_AnyMediaType(n) ==
    IF ~IsSome(n.full_path) THEN Err("MissingFullPath", "")
    ELSE IF ~IsSome(n.media_type) THEN Err("MissingMediaType", "")
    ELSE Ok(Rootfile(EpubUrl(Unwrap(n.full_path)), Unwrap(n.media_type)))

\* The closure mapped over the rootfile children
parse_rootfile(n) ==
    IF ~IsSome(n.full_path) THEN Err("MissingFullPath", "")
    ELSE IF ~IsSome(n.media_type) THEN Err("MissingMediaType", "")
    ELSE LET full_path == EpubUrl(Unwrap(n.full_path))
             media_type == Unwrap(n.media_type)
         IN  IF media_type # OEBPS THEN Err("InvalidMediaType", media_type)
             ELSE Ok(Rootfile(full_path, media_type))

\* collect::<Result<Vec<_>, _>>(): the items in order, or the first error
RECURSIVE CollectRootfiles(_, _, _)
CollectRootfiles(nodes, i, acc) ==
    IF i > Len(nodes) THEN Ok(acc)
    ELSE LET item == parse_rootfile(nodes[i])
         IN  IF ~item.ok THEN item
             ELSE CollectRootfiles(nodes, i + 1, Append(acc, item.val))

parse_container(doc) ==
    IF ~doc.xml_ok THEN Err("ParseError", "")
    ELSE LET rootfiles_elem == FindChild(doc.children, "rootfiles")
         IN  IF ~IsSome(rootfiles_elem) THEN Err("MissingRootfiles", "")
             ELSE LET collected == CollectRootfiles(
                          SelectSeq(Unwrap(rootfiles_elem).children, IsRootfile), 1, <<>>)
                  IN  IF ~collected.ok THEN collected
                      ELSE Ok([rootfiles |-> collected.val])

----------------------------------------------------------------------------
(* Prefix scopes (package/prefix.rs)                                       *)
(* A Prefixes value (BTreeMap<Option<String>, String>) is a sequence of    *)
(* <<key, uri>> pairs with distinct keys.                                  *)

\* A table in which dcterms carries the namespace of dc.
RESERVED_DctermsAsDc ==
    << <<Some("a11y"), "http://www.idpf.org/epub/vocab/package/a11y/#">>,
       <<Some("dc"), "http://purl.org/dc/elements/1.1/">>,
       <<Some("dcterms"), "http://purl.org/dc/elements/1.1/">>,
       <<Some("marc"), "http://id.loc.gov/vocabulary/">>,
       <<Some("media"), "http://www.idpf.org/epub/vocab/overlays/#">>,
       <<Some("msv"), "http://www.idpf.org/epub/vocab/structure/magazine/#">>,
       <<Some("onix"), "http://www.editeur.org/ONIX/book/codelists/current.html#">>,
       <<Some("prism"), "http://www.prismstandard.org/specifications/3.0/PRISM_CV_Spec_3.0.htm#">>,
       <<Some("rendition"), "http://www.idpf.org/vocab/rendition/#">>,
       <<Some("schema"), "http://schema.org/">>,
       <<Some("xsd"), "http://www.w3.org/2001/XMLSchema#">> >>

\* The reserved prefixes: eleven named prefixes, and no entry for the None key.
RESERVED ==
    << <<Some("a11y"), "http://www.idpf.org/epub/vocab/package/a11y/#">>,
       <<Some("dc"), "http://purl.org/dc/elements/1.1/">>,
       <<Some("dcterms"), "http://purl.org/dc/terms/">>,
       <<Some("marc"), "http://id.loc.gov/vocabulary/">>,
       <<Some("media"), "http://www.idpf.org/epub/vocab/overlays/#">>,
       <<Some("msv"), "http://www.idpf.org/epub/vocab/structure/magazine/#">>,
       <<Some("onix"), "http://www.editeur.org/ONIX/book/codelists/current.html#">>,
       <<Some("prism"), "http://www.prismstandard.org/specifications/3.0/PRISM_CV_Spec_3.0.htm#">>,
       <<Some("rendition"), "http://www.idpf.org/vocab/rendition/#">>,
       <<Some("schema"), "http://schema.org/">>,
       <<Some("xsd"), "http://www.w3.org/2001/XMLSchema#">> >>

\* impl PrefixMap for Prefixes: BTreeMap::get
Prefixes_get(prefixes, prefix) ==
    LET hits == {i \in 1..Len(prefixes) : prefixes[i][1] = prefix}
    IN  IF hits = {} THEN None ELSE Some(prefixes[CHOOSE i \in hits : TRUE][2])

\* A variant that scans from the bottom of the stack to the top.
StackScan_BottomUp(stack, i, prefix) ==
    LET hits == {j \in 1..i : IsSome(Prefixes_get(stack[j], prefix))}
    IN  IF hits = {} THEN None
        ELSE Prefixes_get(stack[CHOOSE j \in hits : \A k \in hits : j <= k], prefix)

\* impl PrefixMap for PrefixesStack: from the top of the stack to the bottom
RECURSIVE StackScan(_, _, _)
StackScan(stack, i, prefix) ==
    IF i = 0 THEN None
    ELSE LET uri == Prefixes_get(stack[i], prefix)
         IN  IF IsSome(uri) THEN uri ELSE StackScan(stack, i - 1, prefix)

PrefixesStack_get(stack, prefix) == StackScan(stack, Len(stack), prefix)

\* Vec::push / Vec::pop on the stack
Push(stack, prefixes) == Append(stack, prefixes)

\* A variant that leaves the top scope on the stack.
Pop_Keep(stack) == stack

Pop(stack) == IF Len(stack) = 0 THEN stack ELSE SubSeq(stack, 1, Len(stack) - 1)

----------------------------------------------------------------------------
(* Property resolution against the scope stack                             *)
(* A token is the attribute text split at its first colon:                 *)
(* [prefix |-> Option<String>, reference |-> String].                      *)

Token(prefix, reference) == [prefix |-> prefix, reference |-> reference]

\* Property::from_str(s, &prefixes_stack)
Property_from_str(token, stack) ==
    LET uri == PrefixesStack_get(stack, token.prefix)
    IN  IF IsSome(uri) THEN Ok([ns |-> Unwrap(uri), reference |-> token.reference])
        ELSE Err("NamespaceError", token.prefix)

\* Properties::from_str(s, &prefixes_stack): every token resolved, in order
RECURSIVE PropertiesLoop(_, _, _, _)
PropertiesLoop(tokens, stack, i, acc) ==
    IF i > Len(tokens) THEN Ok(acc)
    ELSE LET property == Property_from_str(tokens[i], stack)
         IN  IF ~property.ok THEN property
             ELSE PropertiesLoop(tokens, stack, i + 1, Append(acc, property.val))

Properties_from_str(tokens, stack) == PropertiesLoop(tokens, stack, 1, <<>>)

----------------------------------------------------------------------------
(* Package parser (package/parser.rs)                                      *)
(* An XML element is [name, ns, prefixes, attrs, children, text]; attrs    *)
(* maps every attribute name used by the parser to an Option.              *)

AttrNames ==
    {"unique-identifier", "version", "id", "href", "media-type", "properties", "fallback",
     "media-overlay", "idref", "linear", "property", "refines", "scheme", "rel"}

\* Element::attr
attr(elem, name) == elem.attrs[name]

InvalidAttr(name, what, value) == Err("InvalidElementAttrError", <<name, what, value>>)

InvalidElement(text, name) == Err("InvalidElementError", <<text, name>>)

\* parse_attr::<String>: a present attribute always converts
parse_attr(elem, name) == Ok(attr(elem, name))

\* parse_attr_some::<String>
parse_attr_some(elem, name) ==
    IF IsSome(attr(elem, name)) THEN Ok(Unwrap(attr(elem, name)))
    ELSE InvalidAttr(name, "is missing", None)

\* parse_attr_fn / parse_attr_some_fn with Property::from_str or Properties::from_str;
\* `converted` is the closure's result on the attribute value.
parse_attr_fn(elem, name, converted) ==
    IF ~IsSome(attr(elem, name)) THEN Ok(None)
    ELSE IF converted.ok THEN Ok(Some(converted.val))
    ELSE InvalidAttr(name, "is invalid", attr(elem, name))

parse_attr_some_fn(elem, name, converted) ==
    IF ~IsSome(attr(elem, name)) THEN InvalidAttr(name, "is missing", None)
    ELSE IF converted.ok THEN Ok(converted.val)
    ELSE InvalidAttr(name, "is invalid", attr(elem, name))

\* str::parse::<bool>
parse_bool(text) ==
    CASE text = "true" -> Ok(TRUE)
      [] text = "false" -> Ok(FALSE)
      [] OTHER -> Err("ParseBoolError", text)

\* The value of an attribute handed to a closure, or a placeholder when absent.
AttrOr(elem, name, default) ==
    IF IsSome(attr(elem, name)) THEN Unwrap(attr(elem, name)) ELSE default

NoToken == Token(None, "")

\* The three vectors parse_metadata fills
NoCollected == [elems |-> <<>>, metas |-> <<>>, links |-> <<>>]

parse_metadata_elem(stack, options, elem, collected) ==
    CASE elem.name = "meta" ->
            LET property == parse_attr_some_fn(elem, "property",
                                Property_from_str(AttrOr(elem, "property", NoToken), stack))
                scheme == parse_attr_fn(elem, "scheme",
                                Property_from_str(AttrOr(elem, "scheme", NoToken), stack))
            IN  IF ~property.ok THEN property
                ELSE IF ~scheme.ok THEN scheme
                ELSE Ok([collected EXCEPT !.metas =
                            Append(@, [property |-> property.val, value |-> elem.text])])
      [] elem.name = "link" ->
            LET href == parse_attr_some_fn(elem, "href",
                                Ok(UrlJoin(options.base_url, AttrOr(elem, "href", <<>>))))
                rel == parse_attr_some_fn(elem, "rel",
                                Properties_from_str(AttrOr(elem, "rel", <<>>), stack))
                property == parse_attr_fn(elem, "properties",
                                Property_from_str(AttrOr(elem, "properties", NoToken), stack))
            IN  IF ~href.ok THEN href
                ELSE IF ~rel.ok THEN rel
                ELSE IF ~property.ok THEN property
                ELSE Ok([collected EXCEPT !.links =
                            Append(@, [href |-> href.val, rel |-> rel.val])])
      [] OTHER ->
            IF elem.ns = DC.uri
            THEN Ok([collected EXCEPT !.elems =
                        Append(@, [tag_name |-> [ns |-> elem.ns, reference |-> elem.name]])])
            ELSE InvalidElement("Invalid metadata element", elem.name)

\* The loop of parse_metadata over the children, from child i on: each
\* child's scope is pushed before and popped after its processing.
RECURSIVE MetadataLoop(_, _, _, _, _)
MetadataLoop(stack, options, children, i, collected) ==
    IF i > Len(children) THEN [res |-> Ok(collected), stack |-> stack]
    ELSE Bind(Push(stack, children[i].prefixes), LAMBDA pushed :
         Bind(parse_metadata_elem(pushed, options, children[i], collected), LAMBDA res :
         Bind(Pop(pushed), LAMBDA popped :
            IF ~res.ok THEN [res |-> res, stack |-> popped]
            ELSE Bind(res.val, LAMBDA acc :
                 MetadataLoop(popped, options, children, i + 1, acc)))))

\* parse_metadata: the metadata element's scope is pushed and stays pushed.
parse_metadata(stack, options, metadata_elem) ==
    Bind(MetadataLoop(Push(stack, metadata_elem.prefixes), options,
                      metadata_elem.children, 1, NoCollected), LAMBDA looped :
        IF ~looped.res.ok THEN looped
        ELSE Bind(Metadata_new(looped.res.val.elems, looped.res.val.metas,
                               looped.res.val.links), LAMBDA metadata :
                [res |-> IF metadata.ok THEN metadata
                         ELSE Err("MetadataCheckError", metadata.err),
                 stack |-> looped.stack]))

parse_manifest_elem(stack, options, elem) ==
    IF elem.name # "item" THEN InvalidElement("Invalid manifest item", "")
    ELSE LET id == parse_attr_some(elem, "id")
             href == parse_attr_some_fn(elem, "href",
                          Ok(UrlJoin(options.base_url, AttrOr(elem, "href", <<>>))))
             media_type == parse_attr_some(elem, "media-type")
             properties == parse_attr_fn(elem, "properties",
                          Properties_from_str(AttrOr(elem, "properties", <<>>), stack))
         IN  IF ~id.ok THEN id
             ELSE IF ~href.ok THEN href
             ELSE IF ~media_type.ok THEN media_type
             ELSE IF ~properties.ok THEN properties
             ELSE Ok(Resource(id.val, href.val, attr(elem, "fallback"), properties.val))

\* children().map(push; parse_manifest_elem; pop).collect(): stops at the first error
RECURSIVE ManifestLoop(_, _, _, _, _)
ManifestLoop(stack, options, children, i, resources) ==
    IF i > Len(children) THEN [res |-> Ok(resources), stack |-> stack]
    ELSE Bind(Push(stack, children[i].prefixes), LAMBDA pushed :
         Bind(parse_manifest_elem(pushed, options, children[i]), LAMBDA res :
         Bind(Pop(pushed), LAMBDA popped :
            IF ~res.ok THEN [res |-> res, stack |-> popped]
            ELSE Bind(Append(resources, res.val), LAMBDA acc :
                 ManifestLoop(popped, options, children, i + 1, acc)))))

parse_manifest(stack, options, manifest_elem) ==
    Bind(ManifestLoop(stack, options, manifest_elem.children, 1, <<>>), LAMBDA looped :
        IF ~looped.res.ok THEN looped
        ELSE Bind(Manifest_new(attr(manifest_elem, "id"), looped.res.val), LAMBDA manifest :
                [res |-> IF manifest.ok THEN manifest
                         ELSE Err("ManifestCheckError", manifest.err),
                 stack |-> looped.stack]))

SpineReference(id, linear) == [id |-> id, linear |-> linear]

parse_spine_elem(stack, options, elem) ==
    IF elem.name # "itemref" THEN InvalidElement("Invalid spine itemref", "")
    ELSE LET id == parse_attr_some(elem, "idref")
             linear == parse_attr_fn(elem, "linear", parse_bool(AttrOr(elem, "linear", "")))
         IN  IF ~id.ok THEN id
             ELSE IF ~linear.ok THEN linear
             ELSE Ok(SpineReference(id.val, linear.val))

\* A variant that drops a reference whose id the spine already holds.
RECURSIVE SpineLoop_Dedup(_, _, _, _, _)
SpineLoop_Dedup(stack, options, children, i, refs) ==
    IF i > Len(children) THEN [res |-> Ok(refs), stack |-> stack]
    ELSE Bind(Push(stack, children[i].prefixes), LAMBDA pushed :
         Bind(parse_spine_elem(pushed, options, children[i]), LAMBDA res :
         Bind(Pop(pushed), LAMBDA popped :
            IF ~res.ok THEN [res |-> res, stack |-> popped]
            ELSE Bind(IF \E k \in DOMAIN refs : refs[k].id = res.val.id
                      THEN refs ELSE Append(refs, res.val), LAMBDA acc :
                 SpineLoop_Dedup(popped, options, children, i + 1, acc)))))

RECURSIVE SpineLoop(_, _, _, _, _)
SpineLoop(stack, options, children, i, refs) ==
    IF i > Len(children) THEN [res |-> Ok(refs), stack |-> stack]
    ELSE Bind(Push(stack, children[i].prefixes), LAMBDA pushed :
         Bind(parse_spine_elem(pushed, options, children[i]), LAMBDA res :
         Bind(Pop(pushed), LAMBDA popped :
            IF ~res.ok THEN [res |-> res, stack |-> popped]
            ELSE Bind(Append(refs, res.val), LAMBDA acc :
                 SpineLoop(popped, options, children, i + 1, acc)))))

parse_spine(stack, options, spine_elem) ==
    Bind(SpineLoop(stack, options, spine_elem.children, 1, <<>>), LAMBDA looped :
        IF ~looped.res.ok THEN looped
        ELSE [res |-> Ok([id |-> attr(spine_elem, "id"), refs |-> looped.res.val]),
              stack |-> looped.stack])

\* A lookup that expects the children at their schema positions.
FindElement_AtSchemaPosition(children, name) ==
    LET pos == CASE name = "metadata" -> 1
                 [] name = "manifest" -> 2
                 [] name = "spine" -> 3
                 [] OTHER -> 1
    IN  IF pos <= Len(children) /\ children[pos].name = name
        THEN Some(children[pos]) ELSE None

\* package_elem.children().find(|n| n.name() == name)
FindElement(children, name) ==
    LET hits == {i \in 1..Len(children) : children[i].name = name}
    IN  IF hits = {} THEN None
        ELSE Some(children[CHOOSE i \in hits : \A j \in hits : i <= j])

parse_package(stack, options, package_elem) ==
    LET unique_identifier_ref == parse_attr_some(package_elem, "unique-identifier")
        version == parse_attr_some(package_elem, "version")
        metadata_elem == FindElement(package_elem.children, "metadata")
        manifest_elem == FindElement(package_elem.children, "manifest")
        spine_elem == FindElement(package_elem.children, "spine")
    IN  IF ~unique_identifier_ref.ok THEN [res |-> unique_identifier_ref, stack |-> stack]
        ELSE IF ~version.ok THEN [res |-> version, stack |-> stack]
        ELSE IF version.val # "3.0"
        THEN [res |-> Err("UnsupportedVersion", version.val), stack |-> stack]
        ELSE IF ~IsSome(metadata_elem)
        THEN [res |-> InvalidElement("metadata is missing", ""), stack |-> stack]
        ELSE Bind(parse_metadata(stack, options, Unwrap(metadata_elem)), LAMBDA metadata :
            IF ~metadata.res.ok THEN metadata
            ELSE IF ~IsSome(manifest_elem)
            THEN [res |-> InvalidElement("manifest is missing", ""), stack |-> metadata.stack]
            ELSE Bind(parse_manifest(metadata.stack, options, Unwrap(manifest_elem)),
                      LAMBDA manifest :
                IF ~manifest.res.ok THEN manifest
                ELSE IF ~IsSome(spine_elem)
                THEN [res |-> InvalidElement("spine is missing", ""), stack |-> manifest.stack]
                ELSE Bind(parse_spine(manifest.stack, options, Unwrap(spine_elem)),
                          LAMBDA spine :
                    IF ~spine.res.ok THEN spine
                    ELSE [res |-> Ok([unique_identifier_ref |-> unique_identifier_ref.val,
                                      version |-> version.val,
                                      id |-> attr(package_elem, "id"),
                                      metadata |-> metadata.res.val,
                                      manifest |-> manifest.res.val,
                                      spine |-> spine.res.val]),
                          stack |-> spine.stack])))

\* Package::get_res_by_ref
get_res_by_ref(package, ref) == get_resource_by_id(package.manifest, ref.id)

\* PackageParser::clear
\* A variant that keeps the scopes of the previous call.
Clear_Keep(stack) == stack

Clear(stack) == <<>>

\* PackageParser::parse: the result and the scope stack the call leaves in
\* parse_state.
PackageParser_parse(stack, options, doc) ==
    LET cleared == Clear(stack)
        reserved == Push(cleared, options.reserved_prefixes)
    IN  IF ~doc.xml_ok THEN [res |-> Err("ParseError", ""), stack |-> reserved]
        ELSE IF doc.root.name # "package"
        THEN [res |-> InvalidElement("root element is not package", ""), stack |-> reserved]
        ELSE Bind(parse_package(Push(reserved, doc.root.prefixes), options, doc.root),
                  LAMBDA parsed : [res |-> parsed.res, stack |-> Pop(parsed.stack)])

----------------------------------------------------------------------------
(* Resource stores (file/local.rs, file/remote.rs, file/remote_epub.rs)    *)
(* Every get returns the store after the call, the returned bytes, the     *)
(* HTTP requests it issued and the files it read from disk.                *)

GetOutcome(store, ret, http, reads) ==
    [store |-> store, ret |-> ret, http |-> http, reads |-> reads]

LocalFiles(root_url, files) == [kind |-> "LocalFiles", root_url |-> root_url, files |-> files]

\* impl Files for LocalFiles: get
LocalFiles_get(store, url) ==
    IF ~IsSome(path_segments(url))
    THEN GetOutcome(store, MapGet(store.files, url), <<>>, <<>>)
    ELSE GetOutcome(store, MapGet(store.files, JoinEmpty(url)), <<>>, <<>>)

\* LazyFile::NotLoaded(R) holds the open file, LazyFile::Loaded holds its bytes.
NotLoaded(file) == [loaded |-> FALSE, content |-> file]

Loaded(bytes) == [loaded |-> TRUE, content |-> bytes]

LazyLocalFiles(root_url, files) ==
    [kind |-> "LazyLocalFiles", root_url |-> root_url, files |-> files]

\* A variant that reads the file on every get and never stores the bytes.
LazyLocalFiles_get_NoCache(store, url) ==
    LET key == IF ~IsSome(path_segments(url)) THEN url ELSE JoinEmpty(url)
    IN  IF ~IsSome(MapGet(store.files, key)) THEN GetOutcome(store, None, <<>>, <<>>)
        ELSE GetOutcome(store, Some(store.files[key].content), <<>>, <<key>>)

\* impl Files for LazyLocalFiles: get
LazyLocalFiles_get(store, url) ==
    LET key == IF ~IsSome(path_segments(url)) THEN url ELSE JoinEmpty(url)
        lazy_file == MapGet(store.files, key)
    IN  IF ~IsSome(lazy_file) THEN GetOutcome(store, None, <<>>, <<>>)
        ELSE IF Unwrap(lazy_file).loaded
        THEN GetOutcome(store, Some(Unwrap(lazy_file).content), <<>>, <<>>)
        ELSE LET content == Unwrap(lazy_file).content
             IN  GetOutcome([store EXCEPT !.files = MapInsert(@, key, Loaded(content))],
                            Some(content), <<>>, <<key>>)

RemoteFiles(url, cache) == [kind |-> "RemoteFiles", root_url |-> url, cache |-> cache]

\* A variant that records an empty body for a failed fetch.
RemoteFiles_get_CacheFailure(store, url, response) ==
    IF IsSome(MapGet(store.cache, url))
    THEN GetOutcome(store, MapGet(store.cache, url), <<>>, <<>>)
    ELSE LET body == IF response.ok THEN response.val ELSE ""
         IN  GetOutcome([store EXCEPT !.cache = MapInsert(@, url, body)], Some(body),
                        <<url>>, <<>>)

\* A variant that fetches on every get.
RemoteFiles_get_NoCache(store, url, response) ==
    IF response.ok THEN GetOutcome(store, Some(response.val), <<url>>, <<>>)
    ELSE GetOutcome(store, None, <<url>>, <<>>)

\* impl Files for RemoteFiles: get. `response` is the outcome of
\* client.get(url).send() followed by bytes(), consulted on a cache miss.
RemoteFiles_get(store, url, response) ==
    IF ~IsSome(MapGet(store.cache, url))
    THEN LET cache == IF response.ok THEN MapInsert(store.cache, url, response.val)
                      ELSE store.cache
         IN  GetOutcome([store EXCEPT !.cache = cache], MapGet(cache, url), <<url>>, <<>>)
    ELSE GetOutcome(store, MapGet(store.cache, url), <<>>, <<>>)

\* read_from_epub_url
RemoteEpub(url) ==
    [kind |-> "RemoteEpub", original_url |-> url, root_url |-> url,
     has_fetched_zip |-> FALSE, fetch_zip_error |-> FALSE, files |-> EmptyMap]

\* The loop of fetch_zip over the entries of the archive, from entry i on.
RECURSIVE ExtractLoop(_, _, _, _)
ExtractLoop(root_url, files, entries, i) ==
    IF i > Len(entries) THEN [ok |-> TRUE, files |-> files]
    ELSE IF ~entries[i].ok THEN [ok |-> FALSE, files |-> files]
    ELSE ExtractLoop(root_url,
                     MapInsert(files, UrlJoin(root_url, entries[i].name), entries[i].content),
                     entries, i + 1)

\* RemoteEpub::fetch_zip. `archive` is what the server and the ZIP reader
\* produce: [send_ok, bytes_ok, zip_ok, entries].
fetch_zip(store, archive) ==
    IF ~archive.send_ok \/ ~archive.bytes_ok \/ ~archive.zip_ok
    THEN [ok |-> FALSE, files |-> store.files]
    ELSE ExtractLoop(store.root_url, store.files, archive.entries, 1)

\* A variant that fetches again after a failure.
RemoteEpub_get_Retry(store, url, archive) ==
    IF ~store.has_fetched_zip
    THEN LET fetched == fetch_zip(store, archive)
             after == [store EXCEPT !.files = fetched.files,
                                    !.fetch_zip_error = ~fetched.ok,
                                    !.has_fetched_zip = fetched.ok]
         IN  GetOutcome(after, IF fetched.ok THEN MapGet(after.files, url) ELSE None,
                        <<store.original_url>>, <<>>)
    ELSE GetOutcome(store, MapGet(store.files, url), <<>>, <<>>)

\* A variant that fetches the archive on every get.
RemoteEpub_get_AlwaysFetch(store, url, archive) ==
    LET fetched == fetch_zip(store, archive)
        after == [store EXCEPT !.files = fetched.files,
                               !.fetch_zip_error = ~fetched.ok,
                               !.has_fetched_zip = fetched.ok]
    IN  GetOutcome(after, IF fetched.ok THEN MapGet(after.files, url) ELSE None,
                   <<store.original_url>>, <<>>)

\* impl Files for RemoteEpub: get
RemoteEpub_get(store, url, archive) ==
    IF ~store.has_fetched_zip
    THEN IF store.fetch_zip_error THEN GetOutcome(store, None, <<>>, <<>>)
         ELSE LET fetched == fetch_zip(store, archive)
                  after == [store EXCEPT !.files = fetched.files,
                                         !.fetch_zip_error = ~fetched.ok,
                                         !.has_fetched_zip = fetched.ok]
              IN  IF after.fetch_zip_error
                  THEN GetOutcome(after, None, <<store.original_url>>, <<>>)
                  ELSE GetOutcome(after, MapGet(after.files, url),
                                  <<store.original_url>>, <<>>)
    ELSE GetOutcome(store, MapGet(store.files, url), <<>>, <<>>)

\* Files::get on whichever store the caller holds
Files_get(store, url, env) ==
    CASE store.kind = "LocalFiles" -> LocalFiles_get(store, url)
      [] store.kind = "LazyLocalFiles" -> LazyLocalFiles_get(store, url)
      [] store.kind = "RemoteFiles" -> RemoteFiles_get(store, url, env)
      [] store.kind = "RemoteEpub" -> RemoteEpub_get(store, url, env)

----------------------------------------------------------------------------
(* The state of each component before it is used                           *)

NoLookup == [by |-> "", id |-> "", href |-> EpubUrl(<<>>), ret |-> None]

IdleManifest ==
    /\ mf_id = None
    /\ mf_resources = <<>>
    /\ mf_result = None
    /\ mf_lookup = NoLookup

NoAccess == [by |-> "", ret |-> None]

IdleMetadata ==
    /\ md_elems = <<>>
    /\ md_metas = <<>>
    /\ md_result = None
    /\ md_access = NoAccess

NoDoc == [xml_ok |-> FALSE, children |-> <<>>]

IdleContainer ==
    /\ ct_doc = NoDoc
    /\ ct_result = None

NoAttrs == [n \in AttrNames |-> None]

Elem(name, ns, prefixes, attrs, children, text) ==
    [name |-> name, ns |-> ns, prefixes |-> prefixes, attrs |-> attrs,
     children |-> children, text |-> text]

NoPackageDoc == [xml_ok |-> FALSE, root |-> Elem("", "", <<>>, NoAttrs, <<>>, "")]

\* PackageParser::new: an empty scope stack
IdlePackage ==
    /\ pk_doc = NoPackageDoc
    /\ pk_result = None
    /\ pk_stack = <<>>
    /\ pk_calls = 0

NoStore == [kind |-> "none"]

IdleStore ==
    /\ st_store = NoStore
    /\ st_log = <<>>

NoContainer == [rootfiles |-> <<>>]

NoOptions == [base_url |-> EpubUrl(<<>>), reserved_prefixes |-> <<>>]

IdleBook ==
    /\ bk_content = <<>>
    /\ bk_pc = "idle"
    /\ bk_container = NoContainer
    /\ bk_options = NoOptions
    /\ bk_next = 1
    /\ bk_packages = <<>>
    /\ bk_result = None

\* No parse call is in progress.
NoFrame == [pc |-> "idle"]

IdlePrefixes ==
    /\ px_stack = <<>>
    /\ px_log = <<>>
    /\ ps_frame = NoFrame

----------------------------------------------------------------------------
(* Inputs of the Manifest specification                                    *)

MaxResources == 2

ResourceIds == {"a", "b"}

ResourceHrefs == {EpubUrl(<<"OEBPS", "nav.xhtml">>), EpubUrl(<<"OEBPS", "ch1.xhtml">>)}

PropertyLists == {None, Some(<<COVER_IMAGE>>), Some(<<COVER_IMAGE, NAV>>)}

Fallbacks == {None} \cup {Some(i) : i \in ResourceIds}

Resources ==
    {Resource(i, h, f, p) : i \in ResourceIds, h \in ResourceHrefs,
                            f \in Fallbacks, p \in PropertyLists}

InitManifest ==
    /\ IdleMetadata
    /\ IdleContainer
    /\ IdlePackage
    /\ IdleStore
    /\ IdleBook
    /\ IdlePrefixes
    /\ mf_id \in {None, Some("manifest")}
    /\ mf_resources \in SeqsUpTo(Resources, MaxResources)
    /\ mf_result = None
    /\ mf_lookup = NoLookup

\* A caller constructs the Manifest.
ManifestNew ==
    /\ mf_result = None
    /\ mf_result' = Some(Manifest_new(mf_id, mf_resources))
    /\ UNCHANGED <<mf_id, mf_resources, mf_lookup, mdVars, ctVars, pkVars, stVars, bkVars, pxVars, psVars>>

Constructed == IsSome(mf_result) /\ Unwrap(mf_result).ok

TheManifest == Unwrap(mf_result).val

\* A holder of the constructed Manifest looks a resource up by id.
GetResourceById(id) ==
    /\ Constructed
    /\ mf_lookup' = [by |-> "id", id |-> id, href |-> EpubUrl(<<>>),
                     ret |-> get_resource_by_id(TheManifest, id)]
    /\ UNCHANGED <<mf_id, mf_resources, mf_result, mdVars, ctVars, pkVars, stVars, bkVars, pxVars, psVars>>

\* A holder of the constructed Manifest looks a resource up by href.
GetResourceByHref(href) ==
    /\ Constructed
    /\ mf_lookup' = [by |-> "href", id |-> "", href |-> href,
                     ret |-> get_resource_by_href(TheManifest, href)]
    /\ UNCHANGED <<mf_id, mf_resources, mf_result, mdVars, ctVars, pkVars, stVars, bkVars, pxVars, psVars>>

NextManifest ==
    \/ ManifestNew
    \/ \E id \in ResourceIds : GetResourceById(id)
    \/ \E href \in ResourceHrefs : GetResourceByHref(href)

SpecManifest == InitManifest /\ [][NextManifest]_vars

----------------------------------------------------------------------------
(* Inputs of the Metadata specification                                    *)

MaxElems == 3

MaxMetas == 2

TagNames ==
    {DC_TITLE, DC_LANGUAGE, DC_IDENTIFIER, from_prefix(DC, "creator"), from_prefix(OPF, "title")}

MetaProperties == {DCTERMS_MODIFIED, from_prefix(OPF, "modified")}

MetaValues == {"2024-01-01T00:00:00Z", "2024-01-01T08:00:00+08:00", "2024-01-01T00:00:00"}

InitMetadata ==
    /\ IdleManifest
    /\ IdleContainer
    /\ IdlePackage
    /\ IdleStore
    /\ IdleBook
    /\ IdlePrefixes
    /\ md_elems \in SeqsUpTo({MetadataElement(t) : t \in TagNames}, MaxElems)
    /\ md_metas \in SeqsUpTo({Meta(p, v) : p \in MetaProperties, v \in MetaValues}, MaxMetas)
    /\ md_result = None
    /\ md_access = NoAccess

\* A caller constructs the Metadata (no link elements).
MetadataNew ==
    /\ md_result = None
    /\ md_result' = Some(Metadata_new(md_elems, md_metas, <<>>))
    /\ UNCHANGED <<md_elems, md_metas, md_access, mfVars, ctVars, pkVars, stVars, bkVars, pxVars, psVars>>

MetadataConstructed == IsSome(md_result) /\ Unwrap(md_result).ok

TheMetadata == Unwrap(md_result).val

\* A holder of the constructed Metadata calls titles(), languages() or identifiers().
MetadataAccess(by) ==
    /\ MetadataConstructed
    /\ md_access' = [by |-> by,
                     ret |-> CASE by = "titles" -> titles(TheMetadata)
                               [] by = "languages" -> languages(TheMetadata)
                               [] by = "identifiers" -> identifiers(TheMetadata)]
    /\ UNCHANGED <<md_elems, md_metas, md_result, mfVars, ctVars, pkVars, stVars, bkVars, pxVars, psVars>>

NextMetadata ==
    \/ MetadataNew
    \/ \E by \in {"titles", "languages", "identifiers"} : MetadataAccess(by)

SpecMetadata == InitMetadata /\ [][NextMetadata]_vars

----------------------------------------------------------------------------
(* Inputs of the Container specification                                   *)

MaxRootfiles == 2

RootfilePaths == {<<"OEBPS", "content.opf">>, <<"alt", "package.opf">>}

MediaTypes == {OEBPS, "text/plain", "application/xml"}

XmlNode(name, full_path, media_type) ==
    [name |-> name, full_path |-> full_path, media_type |-> media_type]

\* Children of a rootfiles element: rootfile elements with either attribute
\* present or absent, and an element of another name.
RootfilesChildren ==
    {XmlNode("rootfile", p, m) : p \in {None} \cup {Some(x) : x \in RootfilePaths},
                                 m \in {None} \cup {Some(x) : x \in MediaTypes}}
        \cup {XmlNode("link", None, None)}

XmlElem(name, children) == [name |-> name, children |-> children]

\* Container documents: malformed XML; no rootfiles element; a rootfiles
\* element alone, after another element, or before a second rootfiles element.
ContainerDocs ==
    {NoDoc, [xml_ok |-> TRUE, children |-> <<>>],
     [xml_ok |-> TRUE, children |-> <<XmlElem("signatures", <<>>)>>]}
    \cup {[xml_ok |-> TRUE, children |-> <<XmlElem("rootfiles", k)>>] :
                k \in SeqsUpTo(RootfilesChildren, MaxRootfiles)}
    \cup {[xml_ok |-> TRUE, children |-> <<XmlElem("signatures", <<>>), XmlElem("rootfiles", k)>>] :
                k \in SeqsUpTo(RootfilesChildren, MaxRootfiles)}
    \cup {[xml_ok |-> TRUE,
           children |-> <<XmlElem("rootfiles", k),
                          XmlElem("rootfiles", <<XmlNode("rootfile", None, None)>>)>>] :
                k \in SeqsUpTo(RootfilesChildren, MaxRootfiles)}

InitContainer ==
    /\ IdleManifest
    /\ IdleMetadata
    /\ IdlePackage
    /\ IdleStore
    /\ IdleBook
    /\ IdlePrefixes
    /\ ct_doc \in ContainerDocs
    /\ ct_result = None

\* A caller parses the container document (Container::from_str).
ParseContainer ==
    /\ ct_result = None
    /\ ct_result' = Some(parse_container(ct_doc))
    /\ UNCHANGED <<ct_doc, mfVars, mdVars, pkVars, stVars, bkVars, pxVars, psVars>>

NextContainer == ParseContainer

SpecContainer == InitContainer /\ [][NextContainer]_vars

----------------------------------------------------------------------------
(* Inputs of the package-parser specification                              *)

MaxChildren == 3

MaxParses == 2

\* parse_book: PackageParseOptions { base_url: rootfiles[0].full_path, reserved_prefixes }
PackageParseOptions ==
    [base_url |-> EpubUrl(<<"OEBPS", "content.opf">>), reserved_prefixes |-> RESERVED]

Attrs(given) == [n \in AttrNames |-> IF n \in DOMAIN given THEN Some(given[n]) ELSE None]

\* xmlns="http://www.idpf.org/2007/opf" on the package element
DefaultScope == << <<None, OPF.uri>> >>

ExScope == << <<Some("ex"), "http://example.org/vocab#">> >>

DcElem(name) == Elem(name, DC.uri, <<>>, NoAttrs, <<>>, "text")

MetaElem(property, text) ==
    Elem("meta", OPF.uri, <<>>, Attrs("property" :> property), <<>>, text)

ModifiedMeta == MetaElem(Token(Some("dcterms"), "modified"), "2024-01-01T00:00:00Z")

MetadataGood ==
    Elem("metadata", OPF.uri, <<>>, NoAttrs,
         <<DcElem("title"), DcElem("language"), DcElem("identifier"), ModifiedMeta>>, "")

MetadataNoTitle ==
    Elem("metadata", OPF.uri, <<>>, NoAttrs,
         <<DcElem("language"), DcElem("identifier"), ModifiedMeta>>, "")

\* declares the prefix ex on the metadata element and uses it in a meta
MetadataScoped ==
    Elem("metadata", OPF.uri, ExScope, NoAttrs,
         <<DcElem("identifier"), DcElem("title"), MetaElem(Token(Some("ex"), "term"), "v"),
           DcElem("language"), ModifiedMeta>>, "")

Item(id, href, properties) ==
    Elem("item", OPF.uri, <<>>,
         [Attrs(("id" :> id) @@ ("href" :> href) @@ ("media-type" :> "application/xhtml+xml"))
            EXCEPT !["properties"] = properties],
         <<>>, "")

NavItem == Item("nav", <<"nav.xhtml">>, Some(<<Token(None, "nav")>>))

ManifestGood ==
    Elem("manifest", OPF.uri, <<>>, NoAttrs,
         <<NavItem, Item("ch1", <<"text", "ch1.xhtml">>, None)>>, "")

ManifestNoNav ==
    Elem("manifest", OPF.uri, <<>>, NoAttrs, <<Item("ch1", <<"text", "ch1.xhtml">>, None)>>, "")

\* an item whose properties use the prefix ex, which the manifest does not declare
ManifestEx ==
    Elem("manifest", OPF.uri, <<>>, Attrs("id" :> "mf"),
         <<Item("ch1", <<"text", "ch1.xhtml">>, Some(<<Token(Some("ex"), "feature")>>)),
           NavItem>>, "")

Itemref(given) == Elem("itemref", OPF.uri, <<>>, Attrs(given), <<>>, "")

SpineGood ==
    Elem("spine", OPF.uri, <<>>, NoAttrs,
         <<Itemref("idref" :> "nav"), Itemref(("idref" :> "ch1") @@ ("linear" :> "false"))>>, "")

SpineNoIdref ==
    Elem("spine", OPF.uri, <<>>, NoAttrs, <<Itemref("linear" :> "true")>>, "")

Guide == Elem("guide", OPF.uri, <<>>, NoAttrs, <<>>, "")

PackageChildren ==
    {MetadataGood, MetadataNoTitle, MetadataScoped, ManifestGood, ManifestNoNav, ManifestEx,
     SpineGood, SpineNoIdref, Guide}

\* The package element's own attributes and namespace declarations.
PackageHead(prefixes, given) == [prefixes |-> prefixes, attrs |-> Attrs(given)]

HeadGood == PackageHead(DefaultScope, ("unique-identifier" :> "uid") @@ ("version" :> "3.0"))

Heads ==
    {HeadGood,
     PackageHead(DefaultScope, ("unique-identifier" :> "uid") @@ ("version" :> "2.0")),
     PackageHead(DefaultScope, "version" :> "3.0"),
     PackageHead(DefaultScope, "unique-identifier" :> "uid"),
     PackageHead(<< <<None, "urn:other">> >>, ("unique-identifier" :> "uid") @@ ("version" :> "3.0"))}

PackageDoc(head, children) ==
    [xml_ok |-> TRUE,
     root |-> Elem("package", OPF.uri, head.prefixes, head.attrs, children, "")]

\* Malformed XML, a document whose root is not package, and package
\* documents with every head and every sequence of children.
PackageDocs ==
    {NoPackageDoc,
     [xml_ok |-> TRUE, root |-> Elem("html", "http://www.w3.org/1999/xhtml", <<>>, NoAttrs, <<>>, "")]}
    \cup {PackageDoc(h, c) : h \in Heads, c \in SeqsUpTo(PackageChildren, MaxChildren)}

\* The documents of the rootfiles after the first one.
LaterPackageDocs ==
    {NoPackageDoc,
     PackageDoc(HeadGood, <<MetadataGood, ManifestGood, SpineGood>>),
     PackageDoc(HeadGood, <<ManifestEx, MetadataScoped, SpineGood>>)}

InitPackage ==
    /\ IdleManifest
    /\ IdleMetadata
    /\ IdleContainer
    /\ IdlePackage
    /\ IdleStore
    /\ IdleBook
    /\ IdlePrefixes

\* parse_book hands each rootfile's document to the one parser (package_parser.parse).
ParsePackage ==
    /\ pk_calls < MaxParses
    /\ \E doc \in (IF pk_calls = 0 THEN PackageDocs ELSE LaterPackageDocs) :
          \E out \in {PackageParser_parse(pk_stack, PackageParseOptions, doc)} :
              /\ pk_doc' = doc
              /\ pk_result' = Some(out.res)
              /\ pk_stack' = out.stack
    /\ pk_calls' = pk_calls + 1
    /\ UNCHANGED <<mfVars, mdVars, ctVars, stVars, bkVars, pxVars, psVars>>

NextPackage == ParsePackage

SpecPackage == InitPackage /\ [][NextPackage]_vars

----------------------------------------------------------------------------
(* Inputs of the resource-store specification                              *)

MaxGets == 3

HostRoot == "https://host/"

PageA == <<"a.xhtml">>

PageB == <<"b.xhtml">>

PageC == <<"c.xhtml">>

\* read_from_zip / read_from_dir: every entry under epub:/
TwoFiles == MapInsert(MapInsert(EmptyMap, EpubUrl(PageA), "alpha"), EpubUrl(PageB), "beta")

\* lazy_read_from_dir: every file opened, none read
TwoLazyFiles ==
    MapInsert(MapInsert(EmptyMap, EpubUrl(PageA), NotLoaded("alpha")),
              EpubUrl(PageB), NotLoaded("beta"))

InitialStores ==
    << LocalFiles(EpubUrl(<<>>), TwoFiles),
       LazyLocalFiles(EpubUrl(<<>>), TwoLazyFiles),
       RemoteFiles(Url(HostRoot, <<>>), EmptyMap),
       RemoteEpub(Url(HostRoot, <<"book.epub">>)) >>

\* The Urls a caller asks for: two entries, one of them also with a
\* fragment, an entry the store does not hold, and a Url that cannot be a base.
Requests(root) ==
    {Url(root, PageA), WithFragment(Url(root, PageA), "frag"), Url(root, PageB),
     Url(root, PageC), WithFragment(Url("mailto:", <<"x">>), "frag")}

\* What send() and bytes() can produce for one request.
HttpResponses == <<Err("send", ""), Err("bytes", ""), Ok("alpha"), Ok("beta")>>

\* The client sends http and https requests only; for any other scheme
\* send() fails.
Answers(url) ==
    IF url.root = HostRoot THEN DOMAIN HttpResponses
    ELSE {k \in DOMAIN HttpResponses : HttpResponses[k] = Err("send", "")}

ZipEntry(name, content, ok) == [name |-> name, content |-> content, ok |-> ok]

Archive(send_ok, bytes_ok, zip_ok, entries) ==
    [send_ok |-> send_ok, bytes_ok |-> bytes_ok, zip_ok |-> zip_ok, entries |-> entries]

\* What the fetch of the archive can produce: a failed request, a failed
\* body, bytes that are not a ZIP, a good archive, an archive whose second
\* entry cannot be read.
Archives ==
    << Archive(FALSE, FALSE, FALSE, <<>>),
       Archive(TRUE, FALSE, FALSE, <<>>),
       Archive(TRUE, TRUE, FALSE, <<>>),
       Archive(TRUE, TRUE, TRUE, <<ZipEntry(PageA, "alpha", TRUE), ZipEntry(PageB, "beta", TRUE)>>),
       Archive(TRUE, TRUE, TRUE, <<ZipEntry(PageA, "alpha", TRUE), ZipEntry(PageB, "beta", FALSE)>>) >>

NoNetwork == "none"

InitFiles ==
    /\ IdleManifest
    /\ IdleMetadata
    /\ IdleContainer
    /\ IdlePackage
    /\ IdleBook
    /\ IdlePrefixes
    /\ \E k \in DOMAIN InitialStores : st_store = InitialStores[k]
    /\ st_log = <<>>

\* The effect of one get call on the state; env is what the network
\* produced for the call.
Logged(url, env, out) ==
    /\ st_store' = out.store
    /\ st_log' = Append(st_log, [url |-> url, env |-> env, ret |-> out.ret,
                                 http |-> out.http, reads |-> out.reads,
                                 before |-> st_store, after |-> out.store])

Called(url, env, out) ==
    /\ Logged(url, env, out)
    /\ UNCHANGED <<mfVars, mdVars, ctVars, pkVars, bkVars, pxVars, psVars>>

LocalFilesGet ==
    /\ st_store.kind = "LocalFiles"
    /\ Len(st_log) < MaxGets
    /\ \E url \in Requests(EPUB_ROOT) : Called(url, NoNetwork, LocalFiles_get(st_store, url))

LazyLocalFilesGet ==
    /\ st_store.kind = "LazyLocalFiles"
    /\ Len(st_log) < MaxGets
    /\ \E url \in Requests(EPUB_ROOT) : Called(url, NoNetwork, LazyLocalFiles_get(st_store, url))

RemoteFilesGet ==
    /\ st_store.kind = "RemoteFiles"
    /\ Len(st_log) < MaxGets
    /\ \E url \in Requests(HostRoot) : \E k \in Answers(url) :
          Called(url, HttpResponses[k], RemoteFiles_get(st_store, url, HttpResponses[k]))

RemoteEpubGet ==
    /\ st_store.kind = "RemoteEpub"
    /\ Len(st_log) < MaxGets
    /\ \E url \in Requests(HostRoot) : \E k \in DOMAIN Archives :
          Called(url, Archives[k], RemoteEpub_get(st_store, url, Archives[k]))

NextFiles ==
    \/ LocalFilesGet
    \/ LazyLocalFilesGet
    \/ RemoteFilesGet
    \/ RemoteEpubGet

SpecFiles == InitFiles /\ [][NextFiles]_vars

----------------------------------------------------------------------------
(* parse_book (book.rs) over a store backed by a publication               *)
(* The bytes of a file are [utf8, text]: whether they are valid UTF-8 and  *)
(* the document they encode.                                               *)

Bytes(utf8, text) == [utf8 |-> utf8, text |-> text]

ContainerPath == <<"META-INF", "container.xml">>

Opf1 == <<"OEBPS", "content.opf">>

Opf2 == <<"alt", "package.opf">>

ContainerDoc(paths) ==
    [xml_ok |-> TRUE,
     children |-> <<XmlElem("rootfiles",
                            [i \in 1..Len(paths) |->
                                XmlNode("rootfile", Some(paths[i]), Some(OEBPS))])>>]

\* The container.xml of the publication: absent, not UTF-8, not XML, or
\* listing no, one or two root files.
ContainerFiles ==
    << <<>>,
       <<ZipEntry(ContainerPath, Bytes(FALSE, NoDoc), TRUE)>>,
       <<ZipEntry(ContainerPath, Bytes(TRUE, NoDoc), TRUE)>>,
       <<ZipEntry(ContainerPath, Bytes(TRUE, ContainerDoc(<<>>)), TRUE)>>,
       <<ZipEntry(ContainerPath, Bytes(TRUE, ContainerDoc(<<Opf1>>)), TRUE)>>,
       <<ZipEntry(ContainerPath, Bytes(TRUE, ContainerDoc(<<Opf1, Opf2>>)), TRUE)>>,
       <<ZipEntry(ContainerPath, Bytes(TRUE, ContainerDoc(<<Opf2, Opf1>>)), TRUE)>> >>

GoodPackage == PackageDoc(HeadGood, <<MetadataGood, ManifestGood, SpineGood>>)

ScopedPackage == PackageDoc(HeadGood, <<SpineGood, MetadataScoped, ManifestEx>>)

\* A package document at `path`: absent, not UTF-8, without a metadata
\* element, or one of two valid documents.
PackageFiles(path) ==
    << <<>>,
       <<ZipEntry(path, Bytes(FALSE, NoPackageDoc), TRUE)>>,
       <<ZipEntry(path, Bytes(TRUE, PackageDoc(HeadGood, <<ManifestGood>>)), TRUE)>>,
       <<ZipEntry(path, Bytes(TRUE, GoodPackage), TRUE)>>,
       <<ZipEntry(path, Bytes(TRUE, ScopedPackage), TRUE)>> >>

\* The entry of the publication named `path`, if any.
Entry(content, path) ==
    LET at == {i \in 1..Len(content) : content[i].name = path}
    IN  IF at = {} THEN None ELSE Some(content[CHOOSE i \in at : TRUE].content)

\* read_from_zip / read_from_dir over the publication
RECURSIVE ReadEntries(_, _, _)
ReadEntries(content, i, files) ==
    IF i > Len(content) THEN files
    ELSE ReadEntries(content, i + 1,
                     MapInsert(files, EpubUrl(content[i].name), content[i].content))

\* lazy_read_from_dir over the publication
RECURSIVE OpenEntries(_, _, _)
OpenEntries(content, i, files) ==
    IF i > Len(content) THEN files
    ELSE OpenEntries(content, i + 1,
                     MapInsert(files, EpubUrl(content[i].name), NotLoaded(content[i].content)))

\* The four stores over one publication.
StoresOver(content) ==
    << LocalFiles(EpubUrl(<<>>), ReadEntries(content, 1, EmptyMap)),
       LazyLocalFiles(EpubUrl(<<>>), OpenEntries(content, 1, EmptyMap)),
       RemoteFiles(Url(HostRoot, <<>>), EmptyMap),
       RemoteEpub(Url(HostRoot, <<"book.epub">>)) >>

\* The body of the server's answer for a path it does not serve.
NotFoundPage == Bytes(TRUE, [xml_ok |-> FALSE])

\* What the network produces for a get of `url`: nothing for the local
\* stores; for RemoteFiles the file the server holds at the path, or a
\* failure or an error page when it holds none; for RemoteEpub the archive.
Network(store, content, url) ==
    CASE store.kind \in {"LocalFiles", "LazyLocalFiles"} -> {NoNetwork}
      [] store.kind = "RemoteFiles" ->
            IF url.root # HostRoot THEN {Err("send", "")}
            ELSE IF IsSome(Entry(content, url.path)) THEN {Ok(Unwrap(Entry(content, url.path)))}
            ELSE {Err("send", ""), Ok(NotFoundPage)}
      [] store.kind = "RemoteEpub" -> {Archive(TRUE, TRUE, TRUE, content)}

InitBook ==
    /\ IdleManifest
    /\ IdleMetadata
    /\ IdleContainer
    /\ IdlePackage
    /\ IdlePrefixes
    /\ \E c \in DOMAIN ContainerFiles, p \in DOMAIN PackageFiles(Opf1),
          q \in DOMAIN PackageFiles(Opf2) :
          bk_content = ContainerFiles[c] \o PackageFiles(Opf1)[p] \o PackageFiles(Opf2)[q]
    /\ \E k \in 1..4 : st_store = StoresOver(bk_content)[k]
    /\ st_log = <<>>
    /\ bk_pc = "container"
    /\ bk_container = NoContainer
    /\ bk_options = NoOptions
    /\ bk_next = 1
    /\ bk_packages = <<>>
    /\ bk_result = None

\* parse_book returns Err(err).
Fails(err) ==
    /\ bk_result' = Some(err)
    /\ bk_pc' = "done"

\* The first block of parse_book: the container is fetched, decoded and parsed.
ReadContainer ==
    /\ bk_pc = "container"
    /\ LET url == UrlJoin(st_store.root_url, ContainerPath)
       IN  \E env \in Network(st_store, bk_content, url) :
               \E out \in {Files_get(st_store, url, env)} :
                   /\ Logged(url, env, out)
                   /\ IF ~IsSome(out.ret)
                      THEN Fails(Err("MissingContainer", "")) /\ UNCHANGED bk_container
                      ELSE IF ~Unwrap(out.ret).utf8
                      THEN Fails(Err("Utf8Error", "")) /\ UNCHANGED bk_container
                      ELSE \E container \in {parse_container(Unwrap(out.ret).text)} :
                               IF ~container.ok
                               THEN /\ Fails(Err("ParseContainerError", container.err))
                                    /\ UNCHANGED bk_container
                               ELSE /\ bk_container' = container.val
                                    /\ bk_pc' = "parser"
                                    /\ UNCHANGED bk_result
    /\ UNCHANGED <<pxVars, psVars, mfVars, mdVars, ctVars, pkVars, bk_content, bk_options, bk_next,
                   bk_packages>>

\* The options are built from rootfiles[0] and the parser is created; the
\* index panics when the container lists no root file.
MakeParser ==
    /\ bk_pc = "parser"
    /\ IF Len(bk_container.rootfiles) = 0
       THEN /\ bk_pc' = "panicked"
            /\ UNCHANGED <<bk_options, pk_stack>>
       ELSE /\ bk_options' = [base_url |-> bk_container.rootfiles[1].full_path,
                              reserved_prefixes |-> RESERVED]
            /\ pk_stack' = <<>>
            /\ bk_pc' = "rootfiles"
    /\ UNCHANGED <<pxVars, psVars, mfVars, mdVars, ctVars, stVars, pk_doc, pk_result, pk_calls,
                   bk_content, bk_container, bk_next, bk_packages, bk_result>>

\* A variant that names the root file the options were built from.
MissingPackage_NamesFirst(rootfiles, rootfile) == Err("MissingPackage", rootfiles[1].full_path)

\* ParseBookError::MissingPackage(rootfile.full_path.to_string())
MissingPackage(rootfiles, rootfile) == Err("MissingPackage", rootfile.full_path)

\* A variant that walks the root files from the last to the first.
Iter_Reversed(rootfiles, n) == rootfiles[Len(rootfiles) + 1 - n]

\* container.rootfiles.iter(): the n-th item the iterator yields
Iter(rootfiles, n) == rootfiles[n]

\* One turn of the closure mapped over container.rootfiles: the root file
\* is fetched, decoded and parsed with the one parser.
ParseRootfile ==
    /\ bk_pc = "rootfiles"
    /\ bk_next <= Len(bk_container.rootfiles)
    /\ LET rootfile == Iter(bk_container.rootfiles, bk_next)
           url == rootfile.full_path
       IN  \E env \in Network(st_store, bk_content, url) :
               \E out \in {Files_get(st_store, url, env)} :
                   /\ Logged(url, env, out)
                   /\ IF ~IsSome(out.ret)
                      THEN /\ Fails(MissingPackage(bk_container.rootfiles, rootfile))
                           /\ UNCHANGED <<pkVars, bk_next, bk_packages>>
                      ELSE IF ~Unwrap(out.ret).utf8
                      THEN /\ Fails(Err("Utf8Error", ""))
                           /\ UNCHANGED <<pkVars, bk_next, bk_packages>>
                      ELSE \E parsed \in {PackageParser_parse(pk_stack, bk_options,
                                                              Unwrap(out.ret).text)} :
                               /\ pk_doc' = Unwrap(out.ret).text
                               /\ pk_result' = Some(parsed.res)
                               /\ pk_stack' = parsed.stack
                               /\ pk_calls' = pk_calls + 1
                               /\ IF ~parsed.res.ok
                                  THEN /\ Fails(Err("ParsePackageError", parsed.res.err))
                                       /\ UNCHANGED <<bk_next, bk_packages>>
                                  ELSE /\ bk_packages' = Append(bk_packages, parsed.res.val)
                                       /\ bk_next' = bk_next + 1
                                       /\ UNCHANGED <<bk_pc, bk_result>>
    /\ UNCHANGED <<pxVars, psVars, mfVars, mdVars, ctVars, bk_content, bk_container, bk_options>>

\* The iterator is exhausted: the packages are collected and the book returned.
ReturnBook ==
    /\ bk_pc = "rootfiles"
    /\ bk_next > Len(bk_container.rootfiles)
    /\ bk_result' = Some(Ok([packages |-> bk_packages]))
    /\ bk_pc' = "done"
    /\ UNCHANGED <<pxVars, psVars, mfVars, mdVars, ctVars, pkVars, stVars, bk_content, bk_container,
                   bk_options, bk_next, bk_packages>>

NextBook ==
    \/ ReadContainer
    \/ MakeParser
    \/ ParseRootfile
    \/ ReturnBook

SpecBook == InitBook /\ [][NextBook]_vars

----------------------------------------------------------------------------
(* Claims about parse_book                                                 *)

Returned == bk_pc = "done"

ContainerUrl == UrlJoin(st_store.root_url, ContainerPath)

\* What the store can return for `url`.
Returns(url) == {Files_get(st_store, url, env).ret : env \in Network(st_store, bk_content, url)}

\* The store does not return bytes for `url`.
NotReturned(url) == \A ret \in Returns(url) : ~IsSome(ret)

\* The store returns bytes for `url` that are not valid UTF-8.
NotUtf8(url) == \E ret \in Returns(url) : IsSome(ret) /\ ~Unwrap(ret).utf8

RootfileUrl(i) == bk_container.rootfiles[i].full_path

FirstNotReturned(i) ==
    /\ i \in DOMAIN bk_container.rootfiles
    /\ NotReturned(RootfileUrl(i))
    /\ \A j \in 1..(i - 1) : ~NotReturned(RootfileUrl(j))

FailsWith(err) == bk_result = Some(err)

\* C17 (as stated): parse_book fails with MissingContainer when the store has
\* no container.xml under its root URL, with a UTF-8 error when the container
\* or a package is not valid UTF-8, and with MissingPackage naming the first
\* root file in container order whose bytes the store does not return.
C17_NamedFailures ==
    Returned =>
        /\ NotReturned(ContainerUrl) => FailsWith(Err("MissingContainer", ""))
        /\ NotUtf8(ContainerUrl) => FailsWith(Err("Utf8Error", ""))
        /\ \A i \in DOMAIN bk_container.rootfiles :
               /\ NotUtf8(RootfileUrl(i)) => FailsWith(Err("Utf8Error", ""))
               /\ FirstNotReturned(i) => FailsWith(Err("MissingPackage", RootfileUrl(i)))

\* C17 (amended): the failures are decided in the order of parse_book's
\* steps. A container that is not returned gives MissingContainer and one
\* that is not UTF-8 a UTF-8 error; a root file whose predecessors have all
\* been fetched, decoded and parsed gives MissingPackage naming its path when
\* it is not returned and a UTF-8 error when it is not UTF-8; in each case
\* the result is an error and no EpubBook.
C17_FirstFailureDecides ==
    Returned =>
        /\ NotReturned(ContainerUrl) => FailsWith(Err("MissingContainer", ""))
        /\ NotUtf8(ContainerUrl) => FailsWith(Err("Utf8Error", ""))
        /\ \A i \in DOMAIN bk_container.rootfiles :
               Len(bk_packages) = i - 1 =>
                   /\ NotUtf8(RootfileUrl(i)) => FailsWith(Err("Utf8Error", ""))
                   /\ NotReturned(RootfileUrl(i)) =>
                          FailsWith(Err("MissingPackage", RootfileUrl(i)))

\* The second root file is missing after the first has been parsed.
C17_Witness ==
    /\ Returned
    /\ Len(bk_packages) = 1
    /\ Len(bk_container.rootfiles) = 2
    /\ NotReturned(RootfileUrl(2))
    /\ FailsWith(Err("MissingPackage", RootfileUrl(2)))

\* An earlier root file that does not parse hides a later missing one.
C17_WitnessHidden ==
    /\ Returned
    /\ FirstNotReturned(2)
    /\ IsSome(bk_result) /\ IsErr(Unwrap(bk_result), "ParsePackageError")

----------------------------------------------------------------------------
(* Claims about the Manifest, checked under SpecManifest                   *)

NavCount(resources) == Cardinality({i \in 1..Len(resources) : HasNav(resources[i])})

DupIds(resources) ==
    {resources[i].id : i \in {k \in 1..Len(resources) :
        \E j \in 1..Len(resources) : j # k /\ resources[j].id = resources[k].id}}

DupHrefs(resources) ==
    {resources[i].href : i \in {k \in 1..Len(resources) :
        \E j \in 1..Len(resources) : j # k /\ resources[j].href = resources[k].href}}

\* C1: Manifest::new succeeds only when exactly one resource carries the nav
\* property; with zero, or with two or more, construction fails.
C1_ExactlyOneNav ==
    IsSome(mf_result) /\ NavCount(mf_resources) # 1 => ~Unwrap(mf_result).ok

\* C1, the part the code enforces: with no nav resource construction fails.
C1_ZeroNavFails ==
    IsSome(mf_result) /\ NavCount(mf_resources) = 0 => ~Unwrap(mf_result).ok

\* C2: a list with two equal ids or two equal hrefs is rejected, with
\* DeduplicatedId naming a repeated id or DeduplicatedHref naming a repeated
\* href (the kind that is present, when only one kind is); in a constructed
\* Manifest ids are pairwise distinct and hrefs are pairwise distinct.
C2_UniqueIdsAndHrefs ==
    IsSome(mf_result) =>
        LET r == Unwrap(mf_result)
            ids == DupIds(mf_resources)
            hrefs == DupHrefs(mf_resources)
        IN  /\ (ids # {} \/ hrefs # {}) =>
                    /\ ~r.ok
                    /\ \/ r.err[1] = "DeduplicatedId" /\ r.err[2] \in ids
                       \/ r.err[1] = "DeduplicatedHref" /\ r.err[2] \in hrefs
            /\ (ids # {} /\ hrefs = {}) => IsErr(r, "DeduplicatedId")
            /\ (ids = {} /\ hrefs # {}) => IsErr(r, "DeduplicatedHref")
            /\ r.ok =>
                    \A i, j \in 1..Len(r.val.resources) :
                        i # j => /\ r.val.resources[i].id # r.val.resources[j].id
                                 /\ r.val.resources[i].href # r.val.resources[j].href

C2_Witness ==
    /\ IsSome(mf_result)
    /\ IsErr(Unwrap(mf_result), "DeduplicatedHref")
    /\ DupIds(mf_resources) = {}

\* C3: in a constructed Manifest every present fallback is the id of an entry
\* other than the resource itself; a fallback naming an absent id is rejected
\* with IdNotFound.
C3_FallbackIsAnotherEntry ==
    Constructed =>
        \A i \in 1..Len(TheManifest.resources) :
            IsSome(TheManifest.resources[i].fallback) =>
                \E j \in 1..Len(TheManifest.resources) :
                    /\ j # i
                    /\ TheManifest.resources[j].id = Unwrap(TheManifest.resources[i].fallback)

\* C4: for every resource r of a constructed Manifest, get_resource_by_id(r.id)
\* and get_resource_by_href(r.href) both return r (through the same index); an
\* id or href not in the list returns None; a recorded lookup agrees.
C4_LookupReturnsResource ==
    Constructed =>
        LET m == TheManifest
            n == Len(m.resources)
        IN  /\ \A i \in 1..n :
                    /\ get_resource_by_id(m, m.resources[i].id) = Some(m.resources[i])
                    /\ get_resource_by_href(m, m.resources[i].href) = Some(m.resources[i])
                    /\ m.id_to_resource[m.resources[i].id] = i - 1
                    /\ m.href_to_resource[m.resources[i].href] = i - 1
            /\ \A id \in ResourceIds :
                    (\A i \in 1..n : m.resources[i].id # id) => get_resource_by_id(m, id) = None
            /\ \A href \in ResourceHrefs :
                    (\A i \in 1..n : m.resources[i].href # href)
                        => get_resource_by_href(m, href) = None
            /\ mf_lookup.by = "id" =>
                    IF \E i \in 1..n : m.resources[i].id = mf_lookup.id
                    THEN \E i \in 1..n : /\ m.resources[i].id = mf_lookup.id
                                          /\ mf_lookup.ret = Some(m.resources[i])
                    ELSE mf_lookup.ret = None
            /\ mf_lookup.by = "href" =>
                    IF \E i \in 1..n : m.resources[i].href = mf_lookup.href
                    THEN \E i \in 1..n : /\ m.resources[i].href = mf_lookup.href
                                          /\ mf_lookup.ret = Some(m.resources[i])
                    ELSE mf_lookup.ret = None

C4_Witness ==
    /\ Constructed
    /\ Len(TheManifest.resources) = 2
    /\ mf_lookup.by = "href"
    /\ mf_lookup.ret = Some(TheManifest.resources[2])

----------------------------------------------------------------------------
(* Claims about the Metadata, checked under SpecMetadata                   *)

HasTag(elems, tag) == \E i \in 1..Len(elems) : elems[i].tag_name = tag

DublinCorePresent(elems) ==
    HasTag(elems, DC_TITLE) /\ HasTag(elems, DC_LANGUAGE) /\ HasTag(elems, DC_IDENTIFIER)

ModifiedAt(metas) == {i \in 1..Len(metas) : metas[i].property = DCTERMS_MODIFIED}

ValidDate(value) == parse_from_rfc3339(value).ok

\* C5 (as stated): every call without a dcterms:modified meta fails with the
\* missing-last-modified error, and every call whose dcterms:modified metas
\* hold no valid RFC3339 value fails with a date parse error.
C5_ModifiedErrorAlways ==
    IsSome(md_result) =>
        LET r == Unwrap(md_result)
            at == ModifiedAt(md_metas)
        IN  /\ at = {} => IsErr(r, "MissingLastModifiedError")
            /\ (at # {} /\ \A i \in at : ~ValidDate(md_metas[i].value))
                    => IsErr(r, "DateParseError")

\* C5 (amended): without a dcterms:modified meta, or with the first such
\* meta holding no valid RFC3339 value, no Metadata is returned; the failure is
\* the missing-last-modified error, respectively a date parse error, whenever
\* dc:title, dc:language and dc:identifier are all present (their check comes
\* first and otherwise reports MissingElementError).
C5_ModifiedErrorAfterElements ==
    IsSome(md_result) =>
        LET r == Unwrap(md_result)
            at == ModifiedAt(md_metas)
            first == CHOOSE i \in at : \A j \in at : i <= j
        IN  /\ at = {} =>
                    /\ ~r.ok
                    /\ IF DublinCorePresent(md_elems)
                       THEN IsErrWith(r, "MissingLastModifiedError", "dcterms:modified")
                       ELSE IsErr(r, "MissingElementError")
            /\ (at # {} /\ ~ValidDate(md_metas[first].value)) =>
                    /\ ~r.ok
                    /\ IF DublinCorePresent(md_elems)
                       THEN IsErrWith(r, "DateParseError", md_metas[first].value)
                       ELSE IsErr(r, "MissingElementError")

C5_Witness ==
    /\ IsSome(md_result)
    /\ IsErr(Unwrap(md_result), "DateParseError")
    /\ Cardinality(ModifiedAt(md_metas)) = 2

\* C6: Metadata::new accepts a metadata set only if it has exactly one meta
\* with property dcterms:modified; two or more make construction fail.
C6_ExactlyOneModified ==
    MetadataConstructed => Cardinality(ModifiedAt(md_metas)) = 1

\* C7: a call whose elements lack dc:title, dc:language or dc:identifier
\* fails with MissingElementError (naming the first one missing); in a
\* constructed Metadata the three groups are present and non-empty, so
\* titles(), languages() and identifiers() return them.
C7_DublinCoreRequired ==
    IsSome(md_result) =>
        LET r == Unwrap(md_result)
        IN  /\ ~HasTag(md_elems, DC_TITLE) => IsErrWith(r, "MissingElementError", "title")
            /\ (HasTag(md_elems, DC_TITLE) /\ ~HasTag(md_elems, DC_LANGUAGE))
                    => IsErrWith(r, "MissingElementError", "language")
            /\ (HasTag(md_elems, DC_TITLE) /\ HasTag(md_elems, DC_LANGUAGE)
                    /\ ~HasTag(md_elems, DC_IDENTIFIER))
                    => IsErrWith(r, "MissingElementError", "identifier")
            /\ r.ok =>
                    /\ \A get \in {titles(r.val), languages(r.val), identifiers(r.val)} :
                            IsSome(get) /\ Len(Unwrap(get)) >= 1
                    /\ \A i \in 1..Len(Unwrap(titles(r.val))) :
                            Unwrap(titles(r.val))[i].tag_name = DC_TITLE
                    /\ md_access.by # "" =>
                            IsSome(md_access.ret) /\ Len(Unwrap(md_access.ret)) >= 1

C7_Witness ==
    /\ MetadataConstructed
    /\ md_access.by = "identifiers"
    /\ IsSome(md_access.ret)

----------------------------------------------------------------------------
(* Claims about the container parser, checked under SpecContainer          *)

\* The rootfile children of the first rootfiles element, in document order.
RootfileChildren(doc) ==
    LET at == {i \in 1..Len(doc.children) : doc.children[i].name = "rootfiles"}
        first == CHOOSE i \in at : \A j \in at : i <= j
        kids == doc.children[first].children
        pick == {i \in 1..Len(kids) : kids[i].name = "rootfile"}
        Nth(S, n) == CHOOSE i \in S : Cardinality({j \in S : j < i}) = n - 1
    IN  [n \in 1..Cardinality(pick) |-> kids[Nth(pick, n)]]

HasRootfiles(doc) == \E i \in 1..Len(doc.children) : doc.children[i].name = "rootfiles"

WellFormed(n) == IsSome(n.full_path) /\ IsSome(n.media_type)

C9_EmptyRootfilesFails ==
    (IsSome(ct_result) /\ ct_doc.xml_ok) =>
        ((~HasRootfiles(ct_doc) \/ Len(RootfileChildren(ct_doc)) = 0)
            => ~Unwrap(ct_result).ok)

\* C9, the part the code enforces: without a rootfiles element the parse
\* fails with MissingRootfiles.
C9_AbsentRootfilesFails ==
    (IsSome(ct_result) /\ ct_doc.xml_ok /\ ~HasRootfiles(ct_doc))
        => IsErr(Unwrap(ct_result), "MissingRootfiles")

----------------------------------------------------------------------------
(* Claims about the package parser, checked under SpecPackage              *)

Required == <<"metadata", "manifest", "spine">>

ChildCount(doc, name) ==
    Cardinality({i \in 1..Len(doc.root.children) : doc.root.children[i].name = name})

IsPackageDoc(doc) == doc.xml_ok /\ doc.root.name = "package"

ExactlyOneEach(doc) ==
    IsPackageDoc(doc) /\ \A k \in 1..3 : ChildCount(doc, Required[k]) = 1

Absent(doc) == {k \in 1..3 : ChildCount(doc, Required[k]) = 0}

FirstAbsent(doc) == CHOOSE k \in Absent(doc) : \A j \in Absent(doc) : k <= j

MissingText(k) ==
    CASE k = 1 -> "metadata is missing"
      [] k = 2 -> "manifest is missing"
      [] k = 3 -> "spine is missing"

Perms(n) == {f \in [1..n -> 1..n] : \A i, j \in 1..n : f[i] = f[j] => i = j}

Permuted(doc, f) ==
    [doc EXCEPT !.root.children = [i \in 1..Len(@) |-> @[f[i]]]]

\* A fresh parser run on every permutation of the children gives the result
\* the parser gave on the document.
SameForEveryPermutation(doc, res) ==
    \A f \in Perms(Len(doc.root.children)) :
        ResEq(PackageParser_parse(<<>>, PackageParseOptions, Permuted(doc, f)).res, res)

\* Failures of the steps that come before the children are looked up.
PackageLevelFailure(res) ==
    \/ IsErr(res, "ParseError")
    \/ IsErrWith(res, "InvalidElementError", <<"root element is not package", "">>)
    \/ IsErr(res, "UnsupportedVersion")
    \/ /\ IsErr(res, "InvalidElementAttrError")
       /\ res.err[2][1] \in {"unique-identifier", "version"}

\* Failures raised while the metadata element is parsed.
MetadataFailure(res) ==
    \/ IsErr(res, "MetadataCheckError")
    \/ IsErr(res, "InvalidElementError") /\ res.err[2][1] = "Invalid metadata element"
    \/ /\ IsErr(res, "InvalidElementAttrError")
       /\ res.err[2][1] \in {"property", "scheme", "href", "rel", "properties"}

\* Failures raised while the manifest element is parsed.
ManifestFailure(res) ==
    \/ IsErr(res, "ManifestCheckError")
    \/ IsErr(res, "InvalidElementError") /\ res.err[2][1] = "Invalid manifest item"
    \/ /\ IsErr(res, "InvalidElementAttrError")
       /\ res.err[2][1] \in {"id", "href", "media-type", "properties"}

\* A failure of a step that precedes the lookup of the k-th required child.
EarlierFailure(k, res) ==
    \/ PackageLevelFailure(res)
    \/ k > 1 /\ MetadataFailure(res)
    \/ k > 2 /\ ManifestFailure(res)

\* A package element with both attributes, the OPF default namespace, and
\* only the valid variants of the required children.
OtherwiseValid(doc) ==
    /\ IsPackageDoc(doc)
    /\ doc.root.attrs["unique-identifier"] # None
    /\ doc.root.attrs["version"] = Some("3.0")
    /\ doc.root.prefixes = DefaultScope
    /\ \A i \in 1..Len(doc.root.children) :
          doc.root.children[i].name \in {"metadata", "manifest", "spine"}
              => doc.root.children[i] \in {MetadataGood, ManifestGood, SpineGood}

\* C10: the children metadata, manifest and spine are accepted in any
\* document order with the same result for every permutation, and whenever
\* one of the three is absent the parse fails with an InvalidElementError
\* that names a missing element.
C10_AnyOrderAndNamedFailure ==
    pk_result # None =>
        LET res == Unwrap(pk_result)
        IN  /\ ExactlyOneEach(pk_doc) => SameForEveryPermutation(pk_doc, res)
            /\ (IsPackageDoc(pk_doc) /\ Absent(pk_doc) # {}) =>
                    /\ IsErr(res, "InvalidElementError")
                    /\ res.err[2][1] \in {MissingText(k) : k \in Absent(pk_doc)}

\* C10 (amended): the children are accepted in any document order with the
\* same result for every permutation; whenever one of the three is absent
\* the parse fails, with the InvalidElementError naming the first absent
\* element (in the order metadata, manifest, spine) unless a step that
\* precedes its lookup has failed, and with exactly that error when the
\* rest of the document is valid.
C10_AnyOrderAndFirstFailure ==
    pk_result # None =>
        LET res == Unwrap(pk_result)
        IN  /\ ExactlyOneEach(pk_doc) => SameForEveryPermutation(pk_doc, res)
            /\ (IsPackageDoc(pk_doc) /\ Absent(pk_doc) # {}) =>
                    LET k == FirstAbsent(pk_doc)
                        named == IsErrWith(res, "InvalidElementError", <<MissingText(k), "">>)
                    IN  /\ ~res.ok
                        /\ named \/ EarlierFailure(k, res)
                        /\ OtherwiseValid(pk_doc) => named

\* A document whose spine comes before its manifest and its manifest before
\* its metadata has been parsed into a Package.
C10_Witness ==
    /\ pk_result # None
    /\ Unwrap(pk_result).ok
    /\ ExactlyOneEach(pk_doc)
    /\ \E i, j, k \in 1..Len(pk_doc.root.children) :
          /\ i < j /\ j < k
          /\ pk_doc.root.children[i].name = "spine"
          /\ pk_doc.root.children[j].name = "manifest"
          /\ pk_doc.root.children[k].name = "metadata"

\* A document without a spine and otherwise valid has been rejected.
C10_WitnessAbsent ==
    /\ pk_result # None
    /\ ~Unwrap(pk_result).ok
    /\ OtherwiseValid(pk_doc)
    /\ Absent(pk_doc) = {3}

----------------------------------------------------------------------------
(* Claims about the resource stores, checked under SpecFiles               *)

Gets == DOMAIN st_log

\* C11: in every store, once a get(u) has returned bytes, every later
\* get(u), whatever was requested in between, returns the same bytes.
C11_Memoized ==
    \A i, j \in Gets :
        (i < j /\ st_log[i].url = st_log[j].url /\ IsSome(st_log[i].ret))
            => st_log[j].ret = st_log[i].ret

\* A remote store has answered a Url, then another one, then the first
\* again while the server would now send another body.
C11_Witness ==
    /\ st_store.kind = "RemoteFiles"
    /\ Len(st_log) = 3
    /\ st_log[1].url = st_log[3].url
    /\ st_log[2].url # st_log[1].url
    /\ IsSome(st_log[1].ret)
    /\ st_log[3].env.ok /\ Some(st_log[3].env.val) # st_log[1].ret

\* C12: in every store a get ignores the fragment of the Url: the call
\* returns what the get of the Url without its fragment returns from the same
\* store, and leaves the store as that get leaves it (one entry for both).
C12_FragmentIgnored ==
    \A i \in Gets :
        LET plain == Files_get(st_log[i].before, JoinEmpty(st_log[i].url), st_log[i].env)
        IN  /\ plain.ret = st_log[i].ret
            /\ plain.store = st_log[i].after

\* C12, for the two stores of local.rs only.
C12_FragmentIgnoredLocally ==
    st_store.kind \in {"LocalFiles", "LazyLocalFiles"} => C12_FragmentIgnored

LazyKeys == DOMAIN st_store.files

\* C13: in the lazy store an entry goes from NotLoaded to Loaded at most
\* once and never back, its file is read at most once, the later gets return
\* the bytes of the first, and a get leaves every other entry as it was.
C13_LoadedOnce ==
    st_store.kind = "LazyLocalFiles" =>
        /\ \A i \in Gets : \A key \in LazyKeys :
              /\ st_log[i].before.files[key].loaded =>
                    st_log[i].after.files[key] = st_log[i].before.files[key]
              /\ key # JoinEmpty(st_log[i].url) =>
                    st_log[i].after.files[key] = st_log[i].before.files[key]
        /\ \A key \in LazyKeys :
              Cardinality({i \in Gets : st_log[i].reads # <<>> /\ st_log[i].reads[1] = key}) <= 1
        /\ \A i, j \in Gets :
              (i < j /\ JoinEmpty(st_log[i].url) = JoinEmpty(st_log[j].url))
                  => st_log[j].ret = st_log[i].ret

\* The same file has been asked for twice, with another one in between.
C13_Witness ==
    /\ st_store.kind = "LazyLocalFiles"
    /\ Len(st_log) = 3
    /\ st_log[1].url = st_log[3].url
    /\ st_log[1].reads # <<>>
    /\ st_log[2].reads # <<>>
    /\ st_log[3].reads = <<>> /\ IsSome(st_log[3].ret)

\* C14: in the remote-archive store, once the fetch and extraction has
\* failed, that get and every later get, for any Url, returns None, and no
\* later get issues an HTTP request.
C14_FailureIsFinal ==
    st_store.kind = "RemoteEpub" =>
        \A i \in Gets :
            st_log[i].after.fetch_zip_error =>
                /\ st_log[i].ret = None
                /\ \A j \in Gets : j > i => st_log[j].ret = None /\ st_log[j].http = <<>>

\* The extraction failed after an entry had been stored, and that entry was
\* asked for afterwards.
C14_Witness ==
    /\ st_store.kind = "RemoteEpub"
    /\ st_store.fetch_zip_error
    /\ Len(st_log) >= 2
    /\ st_log[Len(st_log)].url \in DOMAIN st_store.files

\* C15: in the remote-archive store the first get, and no other, issues the
\* HTTP request; once the archive has been fetched no get changes the
\* extracted entries; the two flags are never both set and never cleared.
C15_FetchedAtMostOnce ==
    st_store.kind = "RemoteEpub" =>
        \A i \in Gets :
            LET e == st_log[i]
            IN  /\ e.http = IF i = 1 THEN <<e.before.original_url>> ELSE <<>>
                /\ e.before.has_fetched_zip => e.after.files = e.before.files
                /\ ~(e.after.has_fetched_zip /\ e.after.fetch_zip_error)
                /\ e.before.has_fetched_zip => e.after.has_fetched_zip
                /\ e.before.fetch_zip_error => e.after.fetch_zip_error

\* The archive has been fetched by a get for an entry it does not hold, and
\* an entry it holds has been returned afterwards.
C15_Witness ==
    /\ st_store.kind = "RemoteEpub"
    /\ st_store.has_fetched_zip
    /\ Len(st_log) >= 2
    /\ st_log[1].ret = None
    /\ IsSome(st_log[2].ret)

\* C16: in the remote HTTP store a get of a Url that is not cached issues
\* one HTTP GET; when that fails the get returns None and leaves the cache as
\* it was, when it succeeds the body is returned and cached under the Url; a
\* get of a cached Url issues no request and returns the cached body.
C16_FailureNotCached ==
    st_store.kind = "RemoteFiles" =>
        \A i \in Gets :
            LET e == st_log[i]
            IN  IF e.url \in DOMAIN e.before.cache
                THEN /\ e.http = <<>>
                     /\ e.ret = Some(e.before.cache[e.url])
                     /\ e.after = e.before
                ELSE /\ e.http = <<e.url>>
                     /\ IF e.env.ok
                        THEN /\ e.ret = Some(e.env.val)
                             /\ e.after.cache = MapInsert(e.before.cache, e.url, e.env.val)
                        ELSE /\ e.ret = None
                             /\ e.after = e.before

\* A get has failed and a later get of the same Url has fetched the body.
C16_Witness ==
    /\ st_store.kind = "RemoteFiles"
    /\ Len(st_log) >= 2
    /\ st_log[1].url = st_log[2].url
    /\ st_log[1].ret = None
    /\ IsSome(st_log[2].ret)
    /\ st_log[2].http # <<>>

\* The requests parse_book made for root files, in the order it made them.
RootfileGets == SubSeq(st_log, 2, Len(st_log))

\* The request for a root file was answered with bytes that parsed.
Succeeded(k) == k <= Len(bk_packages)

\* At every moment of parse_book the k-th request made for a root file is for the k-th root file of
\* the container, it is made only when the k-1 root files before it have been
\* parsed, nothing is requested after a root file has failed, and a returned
\* book holds one package per root file, in container order.
InContainerOrder ==
    /\ Len(RootfileGets) <= Len(bk_container.rootfiles)
    /\ \A k \in DOMAIN RootfileGets :
           /\ RootfileGets[k].url = RootfileUrl(k)
           /\ \A j \in 1..(k - 1) : Succeeded(j)
    /\ Len(bk_packages) <= Len(RootfileGets)
    /\ (IsSome(bk_result) /\ ~Unwrap(bk_result).ok) => Len(RootfileGets) <= Len(bk_packages) + 1
    /\ (IsSome(bk_result) /\ Unwrap(bk_result).ok) =>
           /\ Unwrap(bk_result).val.packages = bk_packages
           /\ Len(bk_packages) = Len(bk_container.rootfiles)
           /\ Len(RootfileGets) = Len(bk_container.rootfiles)

\* Each step of parse_book requests at most the next root file, only when the
\* root files before it have been parsed, and nothing once it has returned.
OneAtATime ==
    [][/\ Len(st_log') <= Len(st_log) + 1
       /\ IsSome(bk_result) => st_log' = st_log
       /\ (Len(st_log') > Len(st_log) /\ Len(st_log) >= 1) =>
              /\ st_log'[Len(st_log')].url = RootfileUrl(Len(st_log))
              /\ Len(bk_packages) = Len(st_log) - 1]_vars

\* C18: parse_book fetches and parses the root files strictly sequentially in
\* container order: root file i+1 is requested only after root file i has
\* been fetched and parsed, no root file is requested after the first failing
\* one, and the packages of a returned book match the container's root files
\* in order and number.
C18_Sequential == []InContainerOrder /\ OneAtATime

\* A book of two packages whose root files were requested in container order,
\* the second listed first in the publication.
C18_Witness ==
    /\ IsSome(bk_result) /\ Unwrap(bk_result).ok
    /\ Len(Unwrap(bk_result).val.packages) = 2
    /\ RootfileUrl(1) = EpubUrl(Opf2)
    /\ RootfileGets[1].url = EpubUrl(Opf2)
    /\ RootfileGets[2].url = EpubUrl(Opf1)

\* The first of two root files failed and the second was never requested.
C18_WitnessStopped ==
    /\ IsSome(bk_result) /\ ~Unwrap(bk_result).ok
    /\ Len(bk_container.rootfiles) = 2
    /\ Len(RootfileGets) = 1

\* The publication behind the store holds a file at the path of `url`.
Held(url) == IsSome(Entry(bk_content, url.path))

\* C19: for every store variant a package document that the store holds at
\* the path of a root file is found by parse_book, not reported as
\* MissingPackage.
C19_BackendAgnostic ==
    Returned =>
        \A i \in DOMAIN bk_container.rootfiles :
            Held(RootfileUrl(i)) => ~FailsWith(Err("MissingPackage", RootfileUrl(i)))

\* The same holds of the stores whose root is epub:/.
C19_LocalStoresFind ==
    (Returned /\ st_store.root_url = EpubUrl(<<>>)) =>
        \A i \in DOMAIN bk_container.rootfiles :
            Held(RootfileUrl(i)) => ~FailsWith(Err("MissingPackage", RootfileUrl(i)))

\* Each Rootfile URL is full-path resolved against the root of the store.
C19_ResolvedAgainstRoot ==
    \A i \in DOMAIN bk_container.rootfiles :
        RootfileUrl(i) = UrlJoin(st_store.root_url, RootfileUrl(i).path)

\* A remote archive that holds the package of its one root file, reported missing.
C19_WitnessMissing ==
    /\ Returned
    /\ st_store.kind = "RemoteEpub"
    /\ Len(bk_container.rootfiles) = 1
    /\ Held(RootfileUrl(1))
    /\ FailsWith(Err("MissingPackage", RootfileUrl(1)))

----------------------------------------------------------------------------
(* A PrefixesStack under push, pop and get (package/prefix.rs)             *)

MaxOps == 5

\* The scopes an element can declare: a default namespace and a prefix,
\* another default namespace, another binding of the prefix, nothing.
Scopes ==
    << << <<None, "http://www.idpf.org/2007/opf">>,
          <<Some("dc"), "http://purl.org/dc/elements/1.1/">> >>,
       << <<None, "http://www.w3.org/1999/xhtml">> >>,
       << <<Some("dc"), "http://example.org/dc">> >>,
       << >> >>

PrefixKeys == {None, Some("dc")}

Operation(op, prefix, ret) ==
    [op |-> op, prefix |-> prefix, ret |-> ret, stack |-> px_stack']

InitPrefixes ==
    /\ IdleManifest
    /\ IdleMetadata
    /\ IdleContainer
    /\ IdlePackage
    /\ IdleStore
    /\ IdleBook
    /\ px_stack = <<>>
    /\ px_log = <<>>
    /\ ps_frame = NoFrame

PushScope ==
    /\ Len(px_log) < MaxOps
    /\ \E k \in DOMAIN Scopes : px_stack' = Push(px_stack, Scopes[k])
    /\ px_log' = Append(px_log, Operation("push", None, None))
    /\ UNCHANGED <<mfVars, mdVars, ctVars, pkVars, stVars, bkVars, psVars>>

PopScope ==
    /\ Len(px_log) < MaxOps
    /\ px_stack' = Pop(px_stack)
    /\ px_log' = Append(px_log, Operation("pop", None, None))
    /\ UNCHANGED <<mfVars, mdVars, ctVars, pkVars, stVars, bkVars, psVars>>

GetPrefix ==
    /\ Len(px_log) < MaxOps
    /\ px_stack' = px_stack
    /\ \E prefix \in PrefixKeys :
           px_log' = Append(px_log, Operation("get", prefix, PrefixesStack_get(px_stack, prefix)))
    /\ UNCHANGED <<mfVars, mdVars, ctVars, pkVars, stVars, bkVars, psVars>>

NextPrefixes ==
    \/ PushScope
    \/ PopScope
    \/ GetPrefix

SpecPrefixes == InitPrefixes /\ [][NextPrefixes]_vars

----------------------------------------------------------------------------
(* Claims about the PrefixesStack                                          *)

\* The scopes of `stack` that bind `prefix`.
Binding(stack, prefix) == {i \in DOMAIN stack : \E b \in DOMAIN stack[i] : stack[i][b][1] = prefix}

\* The URI `prefix` is bound to in scope i of `stack`.
BoundIn(stack, i, prefix) ==
    stack[i][CHOOSE b \in DOMAIN stack[i] : stack[i][b][1] = prefix][2]

\* The URI bound in the most recently pushed scope that contains `prefix`.
MostRecent(stack, prefix) ==
    IF Binding(stack, prefix) = {} THEN None
    ELSE Some(BoundIn(stack, CHOOSE i \in Binding(stack, prefix) :
                                 \A j \in Binding(stack, prefix) : j <= i, prefix))

\* The stack the pushes and pops of the first n operations leave, computed
\* from the operations alone.
RECURSIVE Replay(_)
Replay(n) ==
    IF n = 0 THEN <<>>
    ELSE LET before == Replay(n - 1)
             now == px_log[n]
         IN  CASE now.op = "push" -> Append(before, now.stack[Len(now.stack)])
               [] now.op = "pop" -> IF before = <<>> THEN before
                                    ELSE SubSeq(before, 1, Len(before) - 1)
               [] now.op = "get" -> before

\* C20: a lookup on the stack returns, for any key (the None key included),
\* the URI bound in the most recently pushed scope that contains the key: an
\* inner binding shadows the older ones, and once the inner scope is popped
\* the older binding is returned again.
C20_InnermostWins ==
    \A n \in DOMAIN px_log :
        px_log[n].op = "get" =>
            /\ px_log[n].stack = Replay(n)
            /\ px_log[n].ret = MostRecent(Replay(n), px_log[n].prefix)

\* The default namespace is looked up in a scope that shadows it, and again
\* after that scope has been popped.
C20_Witness ==
    /\ Len(px_log) = 5
    /\ px_log[1].op = "push" /\ px_log[2].op = "push"
    /\ px_log[3].op = "get" /\ px_log[3].prefix = None
    /\ px_log[3].ret = Some("http://www.w3.org/1999/xhtml")
    /\ px_log[4].op = "pop"
    /\ px_log[5].op = "get" /\ px_log[5].prefix = None
    /\ px_log[5].ret = Some("http://www.idpf.org/2007/opf")

----------------------------------------------------------------------------
(* Property resolution against a stack that starts with the reserved scope *)

MaxResolves == 2

\* The prefixes of the reserved table.
ReservedKeys == {RESERVED[i][1] : i \in DOMAIN RESERVED}

\* The tokens resolved: every reserved prefix, the bare token, a prefix a
\* document scope declares and one nothing declares, each before two names.
Tokens ==
    {Token(prefix, reference) :
        prefix \in ReservedKeys \cup {None, Some("ex"), Some("foo")},
        reference \in {"modified", "nav"}}

\* The scopes a document can declare above the reserved one.
DocScopes == <<DefaultScope, ExScope>>

Resolution(op, token, ret) ==
    [op |-> op, token |-> token, ret |-> ret, stack |-> px_stack']

NoResolved == Token(None, "")

\* PackageParser::parse has cleared the stack and pushed the reserved scope.
InitResolver ==
    /\ IdleManifest
    /\ IdleMetadata
    /\ IdleContainer
    /\ IdlePackage
    /\ IdleStore
    /\ IdleBook
    /\ px_stack = Push(Clear(<<>>), RESERVED)
    /\ px_log = <<>>
    /\ ps_frame = NoFrame

DeclareScope ==
    /\ Len(px_log) < MaxResolves
    /\ \E k \in DOMAIN DocScopes : px_stack' = Push(px_stack, DocScopes[k])
    /\ px_log' = Append(px_log, Resolution("push", NoResolved, Ok(NoVal)))
    /\ UNCHANGED <<mfVars, mdVars, ctVars, pkVars, stVars, bkVars, psVars>>

LeaveScope ==
    /\ Len(px_log) < MaxResolves
    /\ Len(px_stack) > 1
    /\ px_stack' = Pop(px_stack)
    /\ px_log' = Append(px_log, Resolution("pop", NoResolved, Ok(NoVal)))
    /\ UNCHANGED <<mfVars, mdVars, ctVars, pkVars, stVars, bkVars, psVars>>

ResolveToken ==
    /\ Len(px_log) < MaxResolves
    /\ px_stack' = px_stack
    /\ \E token \in Tokens :
           px_log' = Append(px_log, Resolution("resolve", token,
                                               Property_from_str(token, px_stack)))
    /\ UNCHANGED <<mfVars, mdVars, ctVars, pkVars, stVars, bkVars, psVars>>

NextResolver ==
    \/ DeclareScope
    \/ LeaveScope
    \/ ResolveToken

SpecResolver == InitResolver /\ [][NextResolver]_vars

----------------------------------------------------------------------------
(* Claims about property resolution                                        *)

\* The n-th operation resolved a token against the reserved scope alone.
ResolvedAgainstReserved(n) ==
    /\ px_log[n].op = "resolve"
    /\ px_log[n].stack = <<RESERVED>>

\* The URI the reserved table of prefix.rs gives a prefix.
ReservedUri(prefix) ==
    CASE prefix = Some("dc") -> "http://purl.org/dc/elements/1.1/"
      [] prefix = Some("dcterms") -> "http://purl.org/dc/terms/"
      [] prefix = Some("a11y") -> "http://www.idpf.org/epub/vocab/package/a11y/#"
      [] prefix = Some("marc") -> "http://id.loc.gov/vocabulary/"
      [] prefix = Some("media") -> "http://www.idpf.org/epub/vocab/overlays/#"
      [] prefix = Some("onix") -> "http://www.editeur.org/ONIX/book/codelists/current.html#"
      [] prefix = Some("rendition") -> "http://www.idpf.org/vocab/rendition/#"
      [] prefix = Some("schema") -> "http://schema.org/"
      [] prefix = Some("xsd") -> "http://www.w3.org/2001/XMLSchema#"
      [] prefix = Some("msv") -> "http://www.idpf.org/epub/vocab/structure/magazine/#"
      [] prefix = Some("prism") ->
            "http://www.prismstandard.org/specifications/3.0/PRISM_CV_Spec_3.0.htm#"

\* Some scope of `stack` binds `prefix`.
Defined(stack, prefix) ==
    \E i \in DOMAIN stack : \E b \in DOMAIN stack[i] : stack[i][b][1] = prefix

\* C21: against a stack holding only the reserved scope, p:local resolves to
\* (URI of p in the reserved table, local) for every reserved prefix p, and
\* against any stack the resolution of a prefix that no scope defines fails
\* and names the prefix.
C21_ReservedResolve ==
    \A n \in DOMAIN px_log :
        /\ (ResolvedAgainstReserved(n) /\ px_log[n].token.prefix \in ReservedKeys) =>
               px_log[n].ret = Ok([ns |-> ReservedUri(px_log[n].token.prefix),
                                   reference |-> px_log[n].token.reference])
        /\ (px_log[n].op = "resolve" /\ ~Defined(px_log[n].stack, px_log[n].token.prefix)) =>
               px_log[n].ret = Err("NamespaceError", px_log[n].token.prefix)

\* dcterms:modified has been resolved against the reserved scope alone, then
\* foo:nav has failed.
C21_Witness ==
    /\ Len(px_log) = 2
    /\ ResolvedAgainstReserved(1)
    /\ px_log[1].token = Token(Some("dcterms"), "modified")
    /\ px_log[1].ret = Ok([ns |-> "http://purl.org/dc/terms/", reference |-> "modified"])
    /\ ResolvedAgainstReserved(2)
    /\ px_log[2].token = Token(Some("foo"), "nav")
    /\ px_log[2].ret = Err("NamespaceError", Some("foo"))

\* C22: the reserved scope binds the None key to the OPF namespace, so a bare
\* token resolves to (OPF namespace, token) against a stack holding only the
\* reserved scope.
C22_BareTokenResolves ==
    \A n \in DOMAIN px_log :
        (ResolvedAgainstReserved(n) /\ px_log[n].token.prefix = None) =>
            /\ Prefixes_get(px_log[n].stack[1], None) = Some(OPF.uri)
            /\ px_log[n].ret = Ok(from_prefix(OPF, px_log[n].token.reference))

\* The bare token nav has been resolved against the reserved scope alone and
\* the resolution has failed.
C22_WitnessFails ==
    /\ Len(px_log) >= 1
    /\ ResolvedAgainstReserved(1)
    /\ px_log[1].token = Token(None, "nav")
    /\ px_log[1].ret = Err("NamespaceError", None)

\* Once a scope that declares the default namespace is on the stack, the bare
\* token nav resolves to the NAV property.
C22_WitnessDeclared ==
    /\ Len(px_log) = 2
    /\ px_log[2].op = "resolve"
    /\ px_log[2].stack = <<RESERVED, DefaultScope>>
    /\ px_log[2].token = Token(None, "nav")
    /\ px_log[2].ret = Ok(NAV)

----------------------------------------------------------------------------
(* PackageParser::parse over package documents that differ in their spine  *)

MaxItemrefs == 3

\* The children a spine element can have: itemrefs naming the two manifest
\* items and an id the manifest does not hold, an itemref without idref,
\* and an element that is not an itemref.
SpineChildren ==
    {Itemref("idref" :> "nav"),
     Itemref(("idref" :> "ch1") @@ ("linear" :> "false")),
     Itemref("idref" :> "ghost"),
     Itemref("linear" :> "true"),
     Elem("item", OPF.uri, <<>>, Attrs("idref" :> "nav"), <<>>, "")}

SpineOf(children) == Elem("spine", OPF.uri, <<>>, NoAttrs, children, "")

SpineDocs ==
    {PackageDoc(HeadGood, <<MetadataGood, ManifestGood, SpineOf(children)>>) :
        children \in SeqsUpTo(SpineChildren, MaxItemrefs)}

InitSpine ==
    /\ IdleManifest
    /\ IdleMetadata
    /\ IdleContainer
    /\ IdlePackage
    /\ IdleStore
    /\ IdleBook
    /\ IdlePrefixes

\* PackageParser::new(options).parse(doc)
ParseSpineDoc ==
    /\ pk_calls = 0
    /\ \E doc \in SpineDocs :
          \E out \in {PackageParser_parse(pk_stack, PackageParseOptions, doc)} :
              /\ pk_doc' = doc
              /\ pk_result' = Some(out.res)
              /\ pk_stack' = out.stack
    /\ pk_calls' = pk_calls + 1
    /\ UNCHANGED <<mfVars, mdVars, ctVars, stVars, bkVars, pxVars, psVars>>

NextSpine == ParseSpineDoc

SpecSpine == InitSpine /\ [][NextSpine]_vars

----------------------------------------------------------------------------
(* Claims about the spine                                                  *)

Parsed == IsSome(pk_result) /\ Unwrap(pk_result).ok

ThePackage == Unwrap(pk_result).val

\* The children of the spine element of the document parsed.
SpineElems ==
    LET children == pk_doc.root.children
        at == {i \in DOMAIN children : children[i].name = "spine"}
    IN  IF at = {} THEN <<>>
        ELSE children[CHOOSE i \in at : \A j \in at : i <= j].children

\* C23: a package that parses holds one SpineReference per itemref child of
\* the spine element, in document order, the i-th reference carrying the
\* idref of the i-th itemref, repeated idrefs included; a spine child that
\* is not an itemref makes the parse fail.
C23_SpineInDocumentOrder ==
    IsSome(pk_result) =>
        /\ Parsed =>
               /\ Len(ThePackage.spine.refs) = Len(SpineElems)
               /\ \A i \in DOMAIN SpineElems :
                      /\ SpineElems[i].name = "itemref"
                      /\ Some(ThePackage.spine.refs[i].id) = SpineElems[i].attrs["idref"]
        /\ (\E i \in DOMAIN SpineElems : SpineElems[i].name # "itemref") => ~Parsed

\* A spine that names ch1, nav and ch1 again has parsed into three
\* references in that order.
C23_Witness ==
    /\ Parsed
    /\ Len(ThePackage.spine.refs) = 3
    /\ ThePackage.spine.refs[1].id = "ch1"
    /\ ThePackage.spine.refs[2].id = "nav"
    /\ ThePackage.spine.refs[3].id = "ch1"

\* A spine with a child that is not an itemref has been rejected.
C23_WitnessRejected ==
    /\ IsSome(pk_result) /\ ~Parsed
    /\ Len(SpineElems) = 2
    /\ SpineElems[1].name = "itemref" /\ SpineElems[2].name = "item"
    /\ Unwrap(pk_result) = InvalidElement("Invalid spine itemref", "")

\* C28: in every Package a successful parse returns, each reference of the
\* spine names a resource of the manifest, so get_res_by_ref returns a
\* resource for it.
C28_SpineRefsResolve ==
    Parsed =>
        \A i \in DOMAIN ThePackage.spine.refs :
            /\ \E k \in DOMAIN ThePackage.manifest.resources :
                   ThePackage.manifest.resources[k].id = ThePackage.spine.refs[i].id
            /\ IsSome(get_res_by_ref(ThePackage, ThePackage.spine.refs[i]))

\* A package has been returned whose spine names an id the manifest does not
\* hold, and get_res_by_ref returns None for it.
C28_WitnessDangling ==
    /\ Parsed
    /\ Len(ThePackage.spine.refs) = 1
    /\ ThePackage.spine.refs[1].id = "ghost"
    /\ get_res_by_ref(ThePackage, ThePackage.spine.refs[1]) = None

\* The references that name manifest items resolve to those items.
C28_WitnessResolved ==
    /\ Parsed
    /\ Len(ThePackage.spine.refs) = 1
    /\ IsSome(get_res_by_ref(ThePackage, ThePackage.spine.refs[1]))
    /\ Unwrap(get_res_by_ref(ThePackage, ThePackage.spine.refs[1])).id = "ch1"

----------------------------------------------------------------------------
(* A holder of a constructed Manifest with mutable access to it            *)
(* impl DerefMut for Manifest hands out &mut Vec<Resource>.                *)

\* The Manifest with the resource list the holder left in it.
WithResources(resources) ==
    /\ Constructed
    /\ mf_result' = Some(Ok([TheManifest EXCEPT !.resources = resources]))
    /\ UNCHANGED <<mf_id, mf_resources, mf_lookup, mdVars, ctVars, pkVars, stVars, bkVars, pxVars, psVars>>

\* manifest.pop()
DerefMutPop ==
    /\ Constructed
    /\ Len(TheManifest.resources) > 0
    /\ WithResources(SubSeq(TheManifest.resources, 1, Len(TheManifest.resources) - 1))

\* manifest.swap(0, 1)
DerefMutSwap ==
    /\ Constructed
    /\ Len(TheManifest.resources) >= 2
    /\ WithResources([TheManifest.resources EXCEPT ![1] = TheManifest.resources[2],
                                                   ![2] = TheManifest.resources[1]])

\* manifest.push(manifest[0].clone())
DerefMutPush ==
    /\ Constructed
    /\ Len(TheManifest.resources) \in 1..MaxResources
    /\ WithResources(Append(TheManifest.resources, TheManifest.resources[1]))

NextHolder ==
    \/ ManifestNew
    \/ DerefMutPop
    \/ DerefMutSwap
    \/ DerefMutPush

SpecHolder == InitManifest /\ [][NextHolder]_vars

\* Every entry of the two indexes points at a resource with that id or href,
\* and every resource is indexed.
IndexesAgree(manifest) ==
    /\ \A id \in DOMAIN manifest.id_to_resource :
           /\ manifest.id_to_resource[id] + 1 \in DOMAIN manifest.resources
           /\ manifest.resources[manifest.id_to_resource[id] + 1].id = id
    /\ \A href \in DOMAIN manifest.href_to_resource :
           /\ manifest.href_to_resource[href] + 1 \in DOMAIN manifest.resources
           /\ manifest.resources[manifest.href_to_resource[href] + 1].href = href
    /\ \A k \in DOMAIN manifest.resources :
           /\ manifest.resources[k].id \in DOMAIN manifest.id_to_resource
           /\ manifest.id_to_resource[manifest.resources[k].id] = k - 1
           /\ manifest.resources[k].href \in DOMAIN manifest.href_to_resource
           /\ manifest.href_to_resource[manifest.resources[k].href] = k - 1

\* The cached nav pointer designates a resource bearing the nav property.
NavPointerHolds(manifest) ==
    /\ manifest.nav_resource + 1 \in DOMAIN manifest.resources
    /\ HasNav(manifest.resources[manifest.nav_resource + 1])

\* C24: a constructed Manifest keeps the resource list it was constructed
\* from whatever its holder does, so its indexes agree with the list and
\* its nav pointer designates a nav resource in every reachable state.
C24_ImmutableOnceConstructed ==
    Constructed =>
        /\ TheManifest.resources = mf_resources
        /\ IndexesAgree(TheManifest)
        /\ NavPointerHolds(TheManifest)

\* Right after construction the indexes agree with the list.
C24_AgreeWhenConstructed ==
    [][(mf_result = None /\ IsSome(mf_result') /\ Unwrap(mf_result').ok) =>
           /\ Unwrap(mf_result').val.resources = mf_resources
           /\ IndexesAgree(Unwrap(mf_result').val)
           /\ NavPointerHolds(Unwrap(mf_result').val)]_vars

\* The holder has popped the nav resource: the id index still points at its
\* position and the nav pointer is past the end of the list.
C24_WitnessStale ==
    /\ Constructed
    /\ Len(mf_resources) = 2
    /\ Len(TheManifest.resources) = 1
    /\ TheManifest.nav_resource = 1
    /\ nav_resource(TheManifest) = None

----------------------------------------------------------------------------
(* PackageParser::parse step by step: every push and pop on the scope      *)
(* stack is a step of its own (package/parser.rs)                          *)

HeadEx ==
    PackageHead(DefaultScope \o ExScope, ("unique-identifier" :> "uid") @@ ("version" :> "3.0"))

\* a meta with its own namespace declarations
ScopedMeta(prefixes, property) ==
    Elem("meta", OPF.uri, prefixes, Attrs("property" :> property), <<>>, "v")

\* a meta declares the prefix ex for itself and uses it
MetadataChildScoped ==
    Elem("metadata", OPF.uri, <<>>, NoAttrs,
         <<DcElem("title"), DcElem("language"), DcElem("identifier"),
           ScopedMeta(ExScope, Token(Some("ex"), "term")), ModifiedMeta>>, "")

\* a meta declares the prefix ex for itself and the next meta uses it
MetadataSibling ==
    Elem("metadata", OPF.uri, <<>>, NoAttrs,
         <<DcElem("title"), DcElem("language"), DcElem("identifier"),
           ScopedMeta(ExScope, Token(Some("ex"), "term")),
           ScopedMeta(<<>>, Token(Some("ex"), "term")), ModifiedMeta>>, "")

ScopedItem(prefixes, id, href, properties) ==
    [Item(id, href, properties) EXCEPT !.prefixes = prefixes]

\* an item declares the prefix ex for itself and uses it
ManifestChildScoped ==
    Elem("manifest", OPF.uri, <<>>, NoAttrs,
         <<NavItem,
           ScopedItem(ExScope, "ch1", <<"text", "ch1.xhtml">>,
                      Some(<<Token(Some("ex"), "feature")>>))>>, "")

\* an item declares the prefix ex for itself and the next item uses it
ManifestSibling ==
    Elem("manifest", OPF.uri, <<>>, NoAttrs,
         <<ScopedItem(ExScope, "ch1", <<"text", "ch1.xhtml">>,
                      Some(<<Token(Some("ex"), "feature")>>)),
           Item("ch2", <<"text", "ch2.xhtml">>, Some(<<Token(Some("ex"), "feature")>>)),
           NavItem>>, "")

\* an itemref with namespace declarations of its own
SpineScoped ==
    Elem("spine", OPF.uri, <<>>, NoAttrs,
         <<[Itemref("idref" :> "nav") EXCEPT !.prefixes = ExScope], Itemref("idref" :> "ch1")>>,
         "")

\* The documents parsed step by step: malformed XML, a root that is not
\* package, packages lacking children, and every combination of a head, a
\* metadata, a manifest and a spine element.
ScopeDocs ==
    {NoPackageDoc,
     [xml_ok |-> TRUE, root |-> Elem("html", "http://www.w3.org/1999/xhtml", <<>>, NoAttrs, <<>>, "")],
     PackageDoc(HeadGood, <<>>),
     PackageDoc(HeadGood, <<MetadataGood>>),
     PackageDoc(HeadGood, <<MetadataGood, ManifestGood>>)}
    \cup {PackageDoc(h, <<md, mf, sp>>) :
            h \in {HeadGood, HeadEx,
                   PackageHead(DefaultScope, ("unique-identifier" :> "uid") @@ ("version" :> "2.0"))},
            md \in {MetadataGood, MetadataScoped, MetadataChildScoped, MetadataSibling,
                    MetadataNoTitle},
            mf \in {ManifestGood, ManifestEx, ManifestChildScoped, ManifestSibling, ManifestNoNav},
            sp \in {SpineGood, SpineScoped, SpineNoIdref}}

\* The documents of the later calls on the same parser.
LaterScopeDocs ==
    {NoPackageDoc,
     PackageDoc(HeadGood, <<MetadataGood, ManifestEx, SpineGood>>),
     PackageDoc(HeadGood, <<MetadataSibling, ManifestGood, SpineGood>>),
     PackageDoc(HeadEx, <<MetadataGood, ManifestGood, SpineScoped>>)}

\* The frame of parse: the pass it is in, the step of the current child,
\* the index of that child, what the pass has collected, the pending result,
\* the element of the pass and the parts of the package parsed so far.
Frame(pc, phase, i, acc, res, elem, parts) ==
    [pc |-> pc, phase |-> phase, i |-> i, acc |-> acc, res |-> res, elem |-> elem,
     parts |-> parts]

NoElem == Elem("", "", <<>>, NoAttrs, <<>>, "")

NoParts == [metadata |-> NoVal, manifest |-> NoVal]

\* parse_package returns `res` to parse.
Returning(res) == Frame("return", "", 0, <<>>, res, NoElem, NoParts)

\* A pass over the children of `elem` starts.
Pass(pc, elem, acc, parts) == Frame(pc, "push", 1, acc, Ok(NoVal), elem, parts)

InitScopes ==
    /\ IdleManifest
    /\ IdleMetadata
    /\ IdleContainer
    /\ IdlePackage
    /\ IdleStore
    /\ IdleBook
    /\ IdlePrefixes

\* parse, lines 74-91: the stack is cleared, the reserved scope pushed, the
\* XML parsed, the root checked and the package scope pushed.
BeginParse ==
    /\ ps_frame.pc = "idle"
    /\ pk_calls < MaxParses
    /\ \E doc \in (IF pk_calls = 0 THEN ScopeDocs ELSE LaterScopeDocs) :
          LET reserved == Push(Clear(pk_stack), PackageParseOptions.reserved_prefixes)
          IN  /\ pk_doc' = doc
              /\ IF ~doc.xml_ok
                 THEN /\ pk_result' = Some(Err("ParseError", ""))
                      /\ pk_stack' = reserved
                      /\ ps_frame' = NoFrame
                 ELSE IF doc.root.name # "package"
                 THEN /\ pk_result' = Some(InvalidElement("root element is not package", ""))
                      /\ pk_stack' = reserved
                      /\ ps_frame' = NoFrame
                 ELSE /\ pk_result' = None
                      /\ pk_stack' = Push(reserved, doc.root.prefixes)
                      /\ ps_frame' = Pass("package", doc.root, <<>>, NoParts)
    /\ pk_calls' = pk_calls + 1
    /\ UNCHANGED <<mfVars, mdVars, ctVars, stVars, bkVars, pxVars>>

\* parse_package, lines 100-118, and parse_metadata, lines 140-145: the
\* attributes are read, metadata is looked up and its scope pushed.
EnterMetadata ==
    /\ ps_frame.pc = "package"
    /\ LET package_elem == ps_frame.elem
           unique_identifier_ref == parse_attr_some(package_elem, "unique-identifier")
           version == parse_attr_some(package_elem, "version")
           metadata_elem == FindElement(package_elem.children, "metadata")
       IN  IF ~unique_identifier_ref.ok
           THEN ps_frame' = Returning(unique_identifier_ref) /\ UNCHANGED pk_stack
           ELSE IF ~version.ok
           THEN ps_frame' = Returning(version) /\ UNCHANGED pk_stack
           ELSE IF version.val # "3.0"
           THEN ps_frame' = Returning(Err("UnsupportedVersion", version.val))
                /\ UNCHANGED pk_stack
           ELSE IF ~IsSome(metadata_elem)
           THEN ps_frame' = Returning(InvalidElement("metadata is missing", ""))
                /\ UNCHANGED pk_stack
           ELSE /\ pk_stack' = Push(pk_stack, Unwrap(metadata_elem).prefixes)
                /\ ps_frame' = Pass("metadata", Unwrap(metadata_elem), NoCollected, NoParts)
    /\ UNCHANGED <<mfVars, mdVars, ctVars, stVars, bkVars, pxVars, pk_doc, pk_result, pk_calls>>

InPass == ps_frame.pc \in {"metadata", "manifest", "spine"}

TheChild == ps_frame.elem.children[ps_frame.i]

\* The scope of the next child is pushed (lines 148-149, 227-228, 259-260).
PushChild ==
    /\ InPass /\ ps_frame.phase = "push"
    /\ ps_frame.i <= Len(ps_frame.elem.children)
    /\ pk_stack' = Push(pk_stack, TheChild.prefixes)
    /\ ps_frame' = [ps_frame EXCEPT !.phase = "process"]
    /\ UNCHANGED <<mfVars, mdVars, ctVars, stVars, bkVars, pxVars, pk_doc, pk_result, pk_calls>>

\* The child is processed against the stack as it now is (lines 151, 230, 262).
ProcessChild ==
    /\ InPass /\ ps_frame.phase = "process"
    /\ \E res \in {CASE ps_frame.pc = "metadata" ->
                          parse_metadata_elem(pk_stack, PackageParseOptions, TheChild,
                                              ps_frame.acc)
                    [] ps_frame.pc = "manifest" ->
                          parse_manifest_elem(pk_stack, PackageParseOptions, TheChild)
                    [] ps_frame.pc = "spine" ->
                          parse_spine_elem(pk_stack, PackageParseOptions, TheChild)} :
          ps_frame' = [ps_frame EXCEPT !.phase = "pop", !.res = res]
    /\ UNCHANGED <<mfVars, mdVars, ctVars, stVars, bkVars, pxVars, pkVars>>

\* The scope of the child is popped, then its result is looked at (lines
\* 152-153, 231-234, 263-266): a failure ends the pass.
PopChild ==
    /\ InPass /\ ps_frame.phase = "pop"
    /\ pk_stack' = Pop(pk_stack)
    /\ IF ~ps_frame.res.ok THEN ps_frame' = Returning(ps_frame.res)
       ELSE ps_frame' = [ps_frame EXCEPT
                            !.phase = "push",
                            !.i = @ + 1,
                            !.res = Ok(NoVal),
                            !.acc = IF ps_frame.pc = "metadata" THEN ps_frame.res.val
                                    ELSE Append(@, ps_frame.res.val)]
    /\ UNCHANGED <<mfVars, mdVars, ctVars, stVars, bkVars, pxVars, pk_doc, pk_result, pk_calls>>

PassOver == InPass /\ ps_frame.phase = "push" /\ ps_frame.i > Len(ps_frame.elem.children)

\* parse_metadata, line 156, and parse_package, lines 120-127: the Metadata
\* is constructed and manifest looked up. No scope is popped.
EnterManifest ==
    /\ PassOver /\ ps_frame.pc = "metadata"
    /\ \E metadata \in {Metadata_new(ps_frame.acc.elems, ps_frame.acc.metas,
                                      ps_frame.acc.links)} :
          LET manifest_elem == FindElement(pk_doc.root.children, "manifest")
          IN  IF ~metadata.ok
              THEN ps_frame' = Returning(Err("MetadataCheckError", metadata.err))
              ELSE IF ~IsSome(manifest_elem)
              THEN ps_frame' = Returning(InvalidElement("manifest is missing", ""))
              ELSE ps_frame' = Pass("manifest", Unwrap(manifest_elem), <<>>,
                                    [NoParts EXCEPT !.metadata = metadata.val])
    /\ UNCHANGED <<mfVars, mdVars, ctVars, stVars, bkVars, pxVars, pkVars>>

\* parse_manifest, line 236, and parse_package, lines 127-134.
EnterSpine ==
    /\ PassOver /\ ps_frame.pc = "manifest"
    /\ \E manifest \in {Manifest_new(attr(ps_frame.elem, "id"), ps_frame.acc)} :
          LET spine_elem == FindElement(pk_doc.root.children, "spine")
          IN  IF ~manifest.ok
              THEN ps_frame' = Returning(Err("ManifestCheckError", manifest.err))
              ELSE IF ~IsSome(spine_elem)
              THEN ps_frame' = Returning(InvalidElement("spine is missing", ""))
              ELSE ps_frame' = Pass("spine", Unwrap(spine_elem), <<>>,
                                    [ps_frame.parts EXCEPT !.manifest = manifest.val])
    /\ UNCHANGED <<mfVars, mdVars, ctVars, stVars, bkVars, pxVars, pkVars>>

\* parse_spine, line 268, and parse_package, line 136: the Package is built.
BuildPackage ==
    /\ PassOver /\ ps_frame.pc = "spine"
    /\ ps_frame' =
          Returning(Ok([unique_identifier_ref |->
                            parse_attr_some(pk_doc.root, "unique-identifier").val,
                        version |-> parse_attr_some(pk_doc.root, "version").val,
                        id |-> attr(pk_doc.root, "id"),
                        metadata |-> ps_frame.parts.metadata,
                        manifest |-> ps_frame.parts.manifest,
                        spine |-> [id |-> attr(ps_frame.elem, "id"), refs |-> ps_frame.acc]]))
    /\ UNCHANGED <<mfVars, mdVars, ctVars, stVars, bkVars, pxVars, pkVars>>

\* parse, lines 93-95: parse_package has returned, one scope is popped and
\* the result handed to the caller.
ReturnFromParse ==
    /\ ps_frame.pc = "return"
    /\ pk_stack' = Pop(pk_stack)
    /\ pk_result' = Some(ps_frame.res)
    /\ ps_frame' = NoFrame
    /\ UNCHANGED <<mfVars, mdVars, ctVars, stVars, bkVars, pxVars, pk_doc, pk_calls>>

NextScopes ==
    \/ BeginParse
    \/ EnterMetadata
    \/ PushChild
    \/ ProcessChild
    \/ PopChild
    \/ EnterManifest
    \/ EnterSpine
    \/ BuildPackage
    \/ ReturnFromParse

SpecScopes == InitScopes /\ [][NextScopes]_vars

\* parse has returned.
ParseReturned == ps_frame.pc = "idle" /\ IsSome(pk_result)

\* The steps give what the parser gives in one piece.
StepsAgreeWithParse ==
    ParseReturned =>
        \E whole \in {PackageParser_parse(<<>>, PackageParseOptions, pk_doc)} :
            /\ Unwrap(pk_result) = whole.res
            /\ pk_stack = whole.stack

\* The scope of the package element of the document being parsed.
PackageScope == pk_doc.root.prefixes

\* The scope of its metadata element.
MetadataScope == Unwrap(FindElement(pk_doc.root.children, "metadata")).prefixes

\* The keys a scope declares.
Keys(prefixes) == {prefixes[k][1] : k \in DOMAIN prefixes}

\* C25: the reserved scope is the bottom of the stack for the whole parse,
\* and when parse returns a Package every scope above it has been popped:
\* exactly the reserved scope is left.
C25_ScopeBalance ==
    /\ pk_calls > 0 => Len(pk_stack) >= 1 /\ pk_stack[1] = RESERVED
    /\ ParseReturned /\ Unwrap(pk_result).ok => pk_stack = <<RESERVED>>

\* The part of C25 that holds: the reserved scope stays at the bottom.
C25_ReservedAtBottom == pk_calls > 0 => Len(pk_stack) >= 1 /\ pk_stack[1] = RESERVED

\* What a successful parse leaves instead: the package scope, the scope of
\* metadata having been popped in its place.
C25_LeavesPackageScope ==
    ParseReturned /\ Unwrap(pk_result).ok => pk_stack = <<RESERVED, PackageScope>>

C25_WitnessLeftover ==
    /\ ParseReturned /\ Unwrap(pk_result).ok
    /\ pk_doc = PackageDoc(HeadGood, <<MetadataGood, ManifestGood, SpineGood>>)
    /\ pk_stack = <<RESERVED, DefaultScope>>

\* The prefixes declared on a sibling of the current child and nowhere on
\* the current child or on an element around it.
SiblingOnly ==
    {key \in UNION {Keys(ps_frame.elem.children[j].prefixes) :
                        j \in DOMAIN ps_frame.elem.children \ {ps_frame.i}} :
        key \notin Keys(TheChild.prefixes) \cup Keys(MetadataScope) \cup Keys(PackageScope)
                   \cup Keys(RESERVED)}

\* A step of a pass on a child: push, process, pop.
BracketedStep ==
    /\ InPass /\ ps_frame.phase = "push" /\ ~PassOver =>
           ps_frame'.phase = "process" /\ pk_stack' = Append(pk_stack, TheChild.prefixes)
    /\ InPass /\ ps_frame.phase = "process" =>
           ps_frame'.phase = "pop" /\ pk_stack' = pk_stack
    /\ InPass /\ ps_frame.phase = "pop" =>
           /\ pk_stack = Append(pk_stack', TheChild.prefixes)
           /\ IF ps_frame.res.ok THEN ps_frame'.phase = "push"
              ELSE ps_frame' = Returning(ps_frame.res)

\* C26: in the metadata, manifest and spine passes the scope of a child is
\* pushed immediately before the child is processed and popped immediately
\* after, whether the processing succeeded or failed, so the stack is the
\* same before and after each child; while a child is processed no prefix
\* declared only on a sibling is resolvable.
C26_ChildScopeBracketsChild ==
    /\ [](InPass /\ ps_frame.phase \in {"process", "pop"} =>
            /\ pk_stack[Len(pk_stack)] = TheChild.prefixes
            /\ \A key \in SiblingOnly : PrefixesStack_get(pk_stack, key) = None)
    /\ [][BracketedStep]_vars

\* A meta that uses the prefix its elder sibling declared has failed on it,
\* its own scope still on the stack.
C26_Witness ==
    /\ ps_frame.pc = "metadata" /\ ps_frame.phase = "pop" /\ ps_frame.i = 5
    /\ ps_frame.elem = MetadataSibling
    /\ PackageScope = DefaultScope
    /\ SiblingOnly = {Some("ex")}
    /\ IsErr(ps_frame.res, "InvalidElementAttrError")

\* An item that declares a prefix for itself has resolved its properties.
C26_WitnessOwnScope ==
    /\ ps_frame.pc = "manifest" /\ ps_frame.phase = "pop" /\ ps_frame.i = 2
    /\ ps_frame.elem = ManifestChildScoped
    /\ ps_frame.res.ok
    /\ pk_stack[Len(pk_stack)] = ExScope

\* C27: the scope of metadata is off the stack before the manifest pass
\* starts: in the manifest and spine passes the stack holds the reserved
\* scope, the package scope and the scope of the current child only, and a
\* prefix declared only on metadata does not resolve for an item.
C27_MetadataScopeEndsWithPass ==
    ps_frame.pc \in {"manifest", "spine"} =>
        /\ pk_stack = <<RESERVED, PackageScope>>
                        \o (IF ps_frame.phase \in {"process", "pop"}
                            THEN <<TheChild.prefixes>> ELSE <<>>)
        /\ \A key \in Keys(MetadataScope) \ (Keys(PackageScope) \cup Keys(RESERVED)) :
               (ps_frame.phase \in {"process", "pop"} /\ key \notin Keys(TheChild.prefixes) =>
                   PrefixesStack_get(pk_stack, key) = None)

\* What the passes after metadata see instead.
C27_MetadataScopeStays ==
    ps_frame.pc \in {"manifest", "spine"} =>
        pk_stack = <<RESERVED, PackageScope, MetadataScope>>
                    \o (IF ps_frame.phase \in {"process", "pop"}
                        THEN <<TheChild.prefixes>> ELSE <<>>)

\* An item has resolved a prefix that only metadata declares.
C27_WitnessResolved ==
    /\ ps_frame.pc = "manifest" /\ ps_frame.phase = "pop" /\ ps_frame.i = 1
    /\ pk_doc = PackageDoc(HeadGood, <<MetadataScoped, ManifestEx, SpineGood>>)
    /\ ps_frame.res.ok
    /\ ps_frame.res.val.properties =
           Some(<<[ns |-> "http://example.org/vocab#", reference |-> "feature"]>>)

\* PackageParser::new(options).parse(doc): the result on a parser that has
\* parsed nothing before.
FreshParse(doc) == PackageParser_parse(<<>>, PackageParseOptions, doc).res

\* C29: a parser carries nothing from one parse call to the next: whatever
\* calls came before, successful or failed, parse gives for a document the
\* Package or the failure a new parser gives for it.
C29_NothingCarriedOver ==
    ParseReturned => Unwrap(pk_result) = FreshParse(pk_doc)

\* The previous call has left a scope declaring the prefix ex behind on
\* the stack of the parser.
C29_WitnessLeftBehind ==
    /\ ParseReturned /\ pk_calls < MaxParses
    /\ Len(pk_stack) = 2
    /\ Some("ex") \in Keys(pk_stack[2])

\* A later call has rejected an item whose properties use the prefix ex,
\* which the document does not declare.
C29_Witness ==
    /\ ParseReturned /\ pk_calls > 1
    /\ pk_doc = PackageDoc(HeadGood, <<MetadataGood, ManifestEx, SpineGood>>)
    /\ IsErr(Unwrap(pk_result), "InvalidElementAttrError")
    /\ Some("ex") \notin Keys(pk_stack[Len(pk_stack)])

----------------------------------------------------------------------------
(* A get on a remote store as a future: it suspends at send().await and at *)
(* bytes().await and may be dropped there (file/remote.rs,                 *)
(* file/remote_epub.rs)                                                    *)

\* A variant that marks the archive as failed before the fetch and clears
\* the mark when the fetch has succeeded.
RemoteEpub_get_begin_MarksFirst(store, url) ==
    IF ~store.has_fetched_zip /\ ~store.fetch_zip_error
    THEN [store |-> [store EXCEPT !.fetch_zip_error = TRUE], suspends |-> TRUE]
    ELSE [store |-> store, suspends |-> FALSE]

\* RemoteEpub::get up to its first suspension point, send().await in
\* fetch_zip: what it has done to the store and whether it suspends.
RemoteEpub_get_begin(store, url) ==
    IF ~store.has_fetched_zip /\ ~store.fetch_zip_error
    THEN [store |-> store, suspends |-> TRUE]
    ELSE [store |-> store, suspends |-> FALSE]

\* RemoteFiles::get up to its first suspension point, send().await.
RemoteFiles_get_begin(store, url) ==
    [store |-> store, suspends |-> ~IsSome(MapGet(store.cache, url))]

Files_get_begin(store, url) ==
    CASE store.kind = "RemoteFiles" -> RemoteFiles_get_begin(store, url)
      [] store.kind = "RemoteEpub" -> RemoteEpub_get_begin(store, url)

RemoteStores == <<InitialStores[3], InitialStores[4]>>

FetchedUrls == {Url(HostRoot, PageA), Url(HostRoot, PageC)}

\* What the network can produce once send() has succeeded.
Bodies(store) ==
    IF store.kind = "RemoteFiles" THEN {Err("bytes", ""), Ok("alpha")}
    ELSE {Archives[k] : k \in {k \in DOMAIN Archives : Archives[k].send_ok}}

\* What it produces when send() fails.
SendFailure(store) ==
    IF store.kind = "RemoteFiles" THEN Err("send", "") ELSE Archives[1]

\* The future of a get suspended at `pc`.
Future(pc, url, before) == [pc |-> pc, url |-> url, before |-> before]

InFlight == ps_frame.pc \in {"send", "bytes"}

InitCancel ==
    /\ IdleManifest
    /\ IdleMetadata
    /\ IdleContainer
    /\ IdlePackage
    /\ IdleBook
    /\ IdlePrefixes
    /\ \E k \in DOMAIN RemoteStores : st_store = RemoteStores[k]
    /\ st_log = <<>>

\* The get call has ended, by returning or by being dropped.
Ended(url, outcome, fetched, ret, before, after) ==
    /\ st_log' = Append(st_log, [url |-> url, outcome |-> outcome, fetched |-> fetched,
                                 ret |-> ret, before |-> before, after |-> after])
    /\ ps_frame' = NoFrame
    /\ UNCHANGED <<mfVars, mdVars, ctVars, pkVars, bkVars, pxVars>>

\* The rest of a suspended get runs to its return with what the network
\* produced.
Resumed(env) ==
    \E out \in {Files_get(st_store, ps_frame.url, env)} :
        /\ st_store' = out.store
        /\ Ended(ps_frame.url, "returned", TRUE, out.ret, ps_frame.before, out.store)

\* get is called and polled: it returns at once or suspends at send().await.
BeginGet ==
    /\ ps_frame.pc = "idle"
    /\ Len(st_log) < MaxGets
    /\ \E url \in FetchedUrls : \E begun \in {Files_get_begin(st_store, url)} :
          IF begun.suspends
          THEN /\ st_store' = begun.store
               /\ ps_frame' = Future("send", url, st_store)
               /\ UNCHANGED <<mfVars, mdVars, ctVars, pkVars, bkVars, pxVars, st_log>>
          ELSE \E out \in {Files_get(begun.store, url, SendFailure(st_store))} :
                  /\ st_store' = out.store
                  /\ Ended(url, "returned", FALSE, out.ret, st_store, out.store)

\* send() has completed: on success the future suspends at bytes().await.
SendCompleted ==
    /\ ps_frame.pc = "send"
    /\ \/ /\ ps_frame' = [ps_frame EXCEPT !.pc = "bytes"]
          /\ UNCHANGED <<mfVars, mdVars, ctVars, pkVars, bkVars, pxVars, stVars>>
       \/ Resumed(SendFailure(st_store))

\* bytes() has completed: the rest of get has no suspension point.
BytesCompleted ==
    /\ ps_frame.pc = "bytes"
    /\ \E env \in Bodies(st_store) : Resumed(env)

\* The caller drops the future at a suspension point.
CancelGet ==
    /\ InFlight
    /\ UNCHANGED st_store
    /\ Ended(ps_frame.url, "cancelled", TRUE, None, ps_frame.before, st_store)

NextCancel ==
    \/ BeginGet
    \/ SendCompleted
    \/ BytesCompleted
    \/ CancelGet

SpecCancel == InitCancel /\ [][NextCancel]_vars

\* The n-th get was dropped while its fetch was in flight.
Cancelled(n) == st_log[n].outcome = "cancelled"

\* The flags of a remote-archive store.
Flags(store) ==
    IF store.kind = "RemoteEpub" THEN <<store.has_fetched_zip, store.fetch_zip_error>>
    ELSE <<>>

\* The entries a remote store holds.
Entries(store) == IF store.kind = "RemoteEpub" THEN store.files ELSE store.cache

\* C30: a get on the remote or remote-archive store that is dropped at a
\* suspension point leaves the store as it was before the call: no entry
\* is added and neither flag of the remote-archive store is set, so the
\* next get for the same Url issues the fetch again.
C30_CancelledGetLeavesStore ==
    /\ InFlight => st_store = ps_frame.before
    /\ \A n \in DOMAIN st_log :
          Cancelled(n) =>
             /\ st_log[n].after = st_log[n].before
             /\ Entries(st_log[n].after) = Entries(st_log[n].before)
             /\ Flags(st_log[n].after) = Flags(st_log[n].before)
             /\ Flags(st_log[n].after) \in {<<>>, <<FALSE, FALSE>>}
             /\ n + 1 \in DOMAIN st_log /\ st_log[n + 1].url = st_log[n].url =>
                    st_log[n + 1].fetched

\* A get on the remote-archive store was dropped, and the next get fetched
\* the archive and returned the entry.
C30_Witness ==
    /\ Len(st_log) >= 2
    /\ st_store.kind = "RemoteEpub"
    /\ Cancelled(1)
    /\ st_log[2].outcome = "returned" /\ st_log[2].fetched
    /\ st_log[2].ret = Some("alpha")
    /\ st_store.has_fetched_zip

\* The same on the remote store, the get dropped at bytes().await.
C30_WitnessRemoteFiles ==
    /\ Len(st_log) >= 2
    /\ st_store.kind = "RemoteFiles"
    /\ Cancelled(1)
    /\ st_log[2].outcome = "returned" /\ st_log[2].fetched
    /\ st_log[2].ret = Some("alpha")

============================================================================
